---------------------------- MODULE Spec2Model ----------------------------
(***************************************************************************)
(* Workwise Tracker backend: the desktop activity report pipeline          *)
(* (app/api/desktop_analytics.py), the domain categorizer                  *)
(* (app/categorization.py) and the team productivity scorer                *)
(* (app/api/teams.py).                                                     *)
(*                                                                         *)
(* A Python str is a sequence of one-character strings, so that lower(),   *)
(* startswith, endswith, "in" and rsplit are computed character by         *)
(* character.  A Python dict is a function from keys to values, so that a  *)
(* key that was never set is absent from its DOMAIN.                       *)
(***************************************************************************)
EXTENDS Integers, Sequences, FiniteSets, TLC

VARIABLES
    db_logs,        \* DesktopActivityLog rows of one user and day, by timestamp
    sync_count,     \* the uploads stored so far
    log_dicts,      \* the list get_daily_report handed to process_logs, after the call
    logs_with_gaps, \* process_logs: result of detect_gaps
    smoothed_logs,  \* process_logs: result of smooth_idle_status
    report,         \* process_logs: the returned report
    interval,       \* process_logs: the interval_seconds of the last call
    responded,      \* TRUE once a report was returned for the current db_logs
    title_app,      \* process_logs: app_name of the snapshot whose title is read
    snapshot_title, \* process_logs: its window_title
    sub_activity,   \* process_logs: the sub_activity computed for it
    custom_rules,   \* categorization._custom_rules
    rule_response,  \* what the last call of the rules API returned
    activity,       \* classify_activity: its arguments app_name, window_title, rules
    activity_category, \* classify_activity: the returned category
    team_members,   \* users whose team_id is the team
    team_rules,     \* TeamAppRule rows of the team, in the order the query returns them
    team_logs,      \* DesktopActivityLog rows of the day, per user, by timestamp
    team_syncs,     \* the uploads stored so far for the team's users
    team_response,  \* what get_team_productivity returned for the current rows
    compare_response, \* what compare_teams returned for the current rows
    calls           \* the invocations of process_logs under way, each with its locals

reportVars == <<db_logs, sync_count, log_dicts, logs_with_gaps, smoothed_logs, report,
                interval, responded>>
titleVars == <<title_app, snapshot_title, sub_activity>>
ruleVars == <<custom_rules, rule_response>>
activityVars == <<activity, activity_category>>
teamVars ==
    <<team_members, team_rules, team_logs, team_syncs, team_response, compare_response>>

callVars == <<calls>>

vars == <<reportVars, titleVars, ruleVars, activityVars, teamVars, callVars>>

(***************************************************************************)
(* Strings                                                                 *)
(***************************************************************************)
UpperChars == <<"A","B","C","D","E","F","G","H","I","J","K","L","M",
                "N","O","P","Q","R","S","T","U","V","W","X","Y","Z">>
LowerChars == <<"a","b","c","d","e","f","g","h","i","j","k","l","m",
                "n","o","p","q","r","s","t","u","v","w","x","y","z">>

LowerChar(c) ==
    IF \E k \in 1..Len(UpperChars) : UpperChars[k] = c
    THEN LowerChars[CHOOSE k \in 1..Len(UpperChars) : UpperChars[k] = c]
    ELSE c

\* str.lower()
lower(s) == [k \in 1..Len(s) |-> LowerChar(s[k])]

\* sub in s
Contains(sub, s) ==
    \E k \in 0..(Len(s) - Len(sub)) : SubSeq(s, k + 1, k + Len(sub)) = sub

\* s.startswith(p)
StartsWith(s, p) == Len(p) <= Len(s) /\ SubSeq(s, 1, Len(p)) = p

\* s.endswith(p)
EndsWith(s, p) == Len(p) <= Len(s) /\ SubSeq(s, Len(s) - Len(p) + 1, Len(s)) = p

(***************************************************************************)
(* Dicts                                                                   *)
(***************************************************************************)
\* d.get(key, default)
Get(d, key, default) == IF key \in DOMAIN d THEN d[key] ELSE default

\* d[key] = value
SetKey(d, key, value) == (key :> value) @@ d

(***************************************************************************)
(* Configuration (desktop_analytics.py)                                    *)
(***************************************************************************)
SNAPSHOT_INTERVAL == 5
IDLE_SMOOTHING_WINDOW == 60
GAP_THRESHOLD == 300
SHORT_STREAK_SECONDS == 15


\* Python truthiness of an optional str: None and "" are both falsy
NoneStr == [some |-> FALSE, val |-> <<>>]
SomeStr(s) == [some |-> TRUE, val |-> s]
Truthy(o) == o.some /\ o.val # <<>>

(***************************************************************************)
(* Timestamps: log["timestamp"] is a datetime (the rows of the database)   *)
(* or a str (ISO text); a dict may also lack the key.                      *)
(***************************************************************************)
\* a datetime, as the seconds since the start of the month of the batch
Datetime(seconds) == [type |-> "datetime", seconds |-> seconds, text |-> <<>>]

\* a str
StrTimestamp(text) == [type |-> "str", seconds |-> 0, text |-> text]

\* None
NoneTimestamp == [type |-> "none", seconds |-> 0, text |-> <<>>]

\* x.get("timestamp", ""): the sort key
SortKey(log) == Get(log, "timestamp", StrTimestamp(<<>>))

\* x.get("timestamp")
TimestampOf(log) == Get(log, "timestamp", NoneTimestamp)

\* the characters of the timestamps, in code point order
CodePointOrder ==
    <<" ", "+", "-", ".", "0", "1", "2", "3", "4", "5", "6", "7", "8", "9", ":",
      "T", "Z", "a", "b", "c", "d", "e", "f", "g", "h", "i", "j", "k", "l", "m",
      "n", "o", "p", "q", "r", "s", "t", "u", "v", "w", "x", "y", "z">>

Ord(c) == CHOOSE k \in 1..Len(CodePointOrder) : CodePointOrder[k] = c

\* a < b for two str: the first place where they differ decides
StrLess(a, b) ==
    \E k \in 1..Len(b) :
        /\ \A j \in 1..(k - 1) : j <= Len(a) /\ a[j] = b[j]
        /\ k = Len(a) + 1 \/ (k <= Len(a) /\ Ord(a[k]) < Ord(b[k]))

\* a < b for two sort keys of one type
KeyLess(a, b) ==
    IF a.type = "datetime" THEN a.seconds < b.seconds ELSE StrLess(a.text, b.text)

\* sorted() raises TypeError ('<' not supported between 'str' and 'datetime')
\* as soon as it compares keys of two types, which it does for any list of
\* two or more that holds both
SortRaisesTypeError(logs) ==
    \E i, j \in 1..Len(logs) :
        /\ i # j
        /\ \/ SortKey(logs[i]).type # SortKey(logs[j]).type
           \/ SortKey(logs[i]).type = "none"

DigitChars == <<"0", "1", "2", "3", "4", "5", "6", "7", "8", "9">>
IsDigit(c) == \E k \in 1..Len(DigitChars) : DigitChars[k] = c
DigitValue(c) == (CHOOSE k \in 1..Len(DigitChars) : DigitChars[k] = c) - 1
TwoDigits(text, i) == 10 * DigitValue(text[i]) + DigitValue(text[i + 1])

\* datetime.fromisoformat accepts the text, for texts of the form
\* YYYY-MM-DDTHH:MM:SS (the form the agent sends); no other text of the
\* batches here is accepted by it
IsIsoFormat(text) ==
    /\ Len(text) = 19
    /\ text[5] = "-" /\ text[8] = "-" /\ text[11] = "T"
    /\ text[14] = ":" /\ text[17] = ":"
    /\ \A k \in {1, 2, 3, 4, 6, 7, 9, 10, 12, 13, 15, 16, 18, 19} : IsDigit(text[k])
    /\ TwoDigits(text, 6) \in 1..12
    /\ TwoDigits(text, 9) \in 1..31
    /\ TwoDigits(text, 12) \in 0..23
    /\ TwoDigits(text, 15) \in 0..59
    /\ TwoDigits(text, 18) \in 0..59

\* the datetime fromisoformat returns, as the seconds since the start of the month
fromisoformat(text) ==
    (TwoDigits(text, 9) - 1) * 86400 + TwoDigits(text, 12) * 3600
        + TwoDigits(text, 15) * 60 + TwoDigits(text, 18)

\* if isinstance(ts, str): ts = datetime.fromisoformat(...) raises ValueError
ParseRaisesValueError(log) ==
    TimestampOf(log).type = "str" /\ ~IsIsoFormat(TimestampOf(log).text)

\* ts_prev / ts_curr after the isinstance branch, as a number of seconds
ParsedSeconds(log) ==
    IF TimestampOf(log).type = "str"
    THEN fromisoformat(TimestampOf(log).text)
    ELSE TimestampOf(log).seconds

\* if ts_prev and ts_curr: None is falsy, a datetime is not
BothTimestamps(prev, curr) ==
    TimestampOf(prev).type # "none" /\ TimestampOf(curr).type # "none"

(***************************************************************************)
(* sorted(logs, key=lambda x: x.get("timestamp", "")): a stable sort,      *)
(* computed as the sequence of the input's indexes in sorted order.        *)
(***************************************************************************)
RECURSIVE InsertByTimestamp(_, _, _)
InsertByTimestamp(logs, idx, i) ==
    IF idx = <<>>
    THEN <<i>>
    ELSE LET last == idx[Len(idx)] IN
         IF ~KeyLess(SortKey(logs[i]), SortKey(logs[last]))
         THEN Append(idx, i)
         ELSE Append(InsertByTimestamp(logs, SubSeq(idx, 1, Len(idx) - 1), i), last)

RECURSIVE SortedIndexesFrom(_, _, _)
SortedIndexesFrom(logs, idx, i) ==
    IF i > Len(logs)
    THEN idx
    ELSE SortedIndexesFrom(logs, InsertByTimestamp(logs, idx, i), i + 1)

SortedIndexes(logs) == SortedIndexesFrom(logs, <<>>, 1)

\* the list as it came, not sorted
input_order(logs) == logs

sorted_by_timestamp(logs) ==
    LET idx == SortedIndexes(logs) IN [k \in 1..Len(logs) |-> logs[idx[k]]]

(***************************************************************************)
(* detect_gaps                                                             *)
(***************************************************************************)
IsGapWithThresholdIncluded(gap) == gap >= GAP_THRESHOLD

\* if gap > GAP_THRESHOLD
IsGap(gap) == gap > GAP_THRESHOLD

\* a flag that also turns the snapshot after the gap idle
MarkGapAsIdle(sorted, k) ==
    IF /\ k > 1
       /\ BothTimestamps(sorted[k - 1], sorted[k])
       /\ IsGap(ParsedSeconds(sorted[k]) - ParsedSeconds(sorted[k - 1]))
    THEN SetKey(SetKey(SetKey(sorted[k], "after_gap", TRUE), "gap_seconds",
                       ParsedSeconds(sorted[k]) - ParsedSeconds(sorted[k - 1])),
                "is_idle", TRUE)
    ELSE sorted[k]

\* The snapshot at place k of the sorted list after the loop: the loop sets
\* after_gap and gap_seconds on the later snapshot of a pair.
MarkGap(sorted, k) ==
    IF /\ k > 1
       /\ BothTimestamps(sorted[k - 1], sorted[k])
       /\ IsGap(ParsedSeconds(sorted[k]) - ParsedSeconds(sorted[k - 1]))
    THEN SetKey(SetKey(sorted[k], "after_gap", TRUE), "gap_seconds",
                ParsedSeconds(sorted[k]) - ParsedSeconds(sorted[k - 1]))
    ELSE sorted[k]

\* detect_gaps raises: sorted() on keys of two types, or fromisoformat on a
\* text it rejects; with two or more snapshots every one is ts_prev or
\* ts_curr of some round of the loop, with one snapshot the loop has no round
detect_gaps_raises(logs) ==
    /\ Len(logs) >= 2
    /\ \/ SortRaisesTypeError(logs)
       \/ \E k \in 1..Len(logs) : ParseRaisesValueError(logs[k])

detect_gaps(logs) ==
    IF logs = <<>>
    THEN logs
    ELSE LET sorted == sorted_by_timestamp(logs)
         IN  [k \in 1..Len(sorted) |-> MarkGap(sorted, k)]

\* the rounds of the loop in which fromisoformat raises
RaisingRounds(sorted) ==
    {k \in 2..Len(sorted) :
        ParseRaisesValueError(sorted[k - 1]) \/ ParseRaisesValueError(sorted[k])}

\* The caller's list after detect_gaps raised: untouched when sorted() raised,
\* else with the keys the rounds before the raising one have set.
input_after_detect_gaps_raised(logs) ==
    IF SortRaisesTypeError(logs)
    THEN logs
    ELSE LET idx == SortedIndexes(logs)
             sorted == sorted_by_timestamp(logs)
             raising == CHOOSE r \in RaisingRounds(sorted) :
                            \A q \in RaisingRounds(sorted) : r <= q
         IN  [j \in 1..Len(logs) |->
                 LET k == CHOOSE q \in 1..Len(logs) : idx[q] = j
                 IN  IF k < raising THEN MarkGap(sorted, k) ELSE sorted[k]]

\* detect_gaps sets the keys on the caller's own dicts (sorted() copies the
\* list, not the dicts): the caller's list after the call.
input_after_detect_gaps(logs) ==
    IF logs = <<>>
    THEN logs
    ELSE LET idx == SortedIndexes(logs)
             marked == detect_gaps(logs)
         IN  [j \in 1..Len(logs) |->
                 marked[CHOOSE k \in 1..Len(logs) : idx[k] = j]]

(***************************************************************************)
(* smooth_idle_status                                                      *)
(***************************************************************************)
is_idle_of(log) == Get(log, "is_idle", FALSE)

\* a streak that would also end before a snapshot that follows a gap
RECURSIVE StreakEndAtGap(_, _)
StreakEndAtGap(s, i) ==
    IF i <= Len(s) /\ is_idle_of(s[i])
    THEN IF i + 1 <= Len(s) /\ Get(s[i + 1], "after_gap", FALSE)
         THEN i + 1
         ELSE StreakEndAtGap(s, i + 1)
    ELSE i

\* while i < n and smoothed[i].get("is_idle", False): i += 1
RECURSIVE StreakEnd(_, _)
StreakEnd(s, i) ==
    IF i <= Len(s) /\ is_idle_of(s[i]) THEN StreakEnd(s, i + 1) ELSE i

\* the streak made active without the smoothed mark
ReclassifyWithoutMark(s, streak_start, streak_end) ==
    [j \in 1..Len(s) |->
        IF streak_start <= j /\ j < streak_end
        THEN SetKey(s[j], "is_idle", FALSE)
        ELSE s[j]]

\* for j in range(streak_start, streak_end): is_idle = False, smoothed = True
Reclassify(s, streak_start, streak_end) ==
    [j \in 1..Len(s) |->
        IF streak_start <= j /\ j < streak_end
        THEN SetKey(SetKey(s[j], "is_idle", FALSE), "smoothed", TRUE)
        ELSE s[j]]

AnyStreakLength(streak_seconds) == TRUE

\* if streak_seconds <= IDLE_SMOOTHING_WINDOW
WithinSmoothingWindow(streak_seconds) == streak_seconds <= IDLE_SMOOTHING_WINDOW

\* if app_before and app_after and app_before == app_after
SameAppAround(app_before, app_after) ==
    Truthy(app_before) /\ Truthy(app_after) /\ app_before.val = app_after.val

ShortStreakOfTwo(streak_seconds) == streak_seconds <= 2 * SNAPSHOT_INTERVAL

\* elif streak_seconds <= 15
ShortStreak(streak_seconds) == streak_seconds <= SHORT_STREAK_SECONDS

\* One idle streak, from streak_start to streak_end (exclusive).
SmoothStreak(s, streak_start, streak_end) ==
    LET streak_length == streak_end - streak_start
        streak_seconds == streak_length * SNAPSHOT_INTERVAL
        app_before == IF streak_start > 1
                      THEN SomeStr(Get(s[streak_start - 1], "app_name", <<>>))
                      ELSE NoneStr
        app_after == IF streak_end <= Len(s)
                     THEN SomeStr(Get(s[streak_end], "app_name", <<>>))
                     ELSE NoneStr
    IN  IF WithinSmoothingWindow(streak_seconds)
        THEN IF SameAppAround(app_before, app_after)
             THEN Reclassify(s, streak_start, streak_end)
             ELSE IF ShortStreak(streak_seconds)
                  THEN Reclassify(s, streak_start, streak_end)
                  ELSE s
        ELSE s

ResumeAtNextSnapshot(streak_start, streak_end) == streak_start + 1

\* the inner while leaves i at streak_end: the scan resumes after the streak
ResumeAt(streak_start, streak_end) == streak_end

\* while i < n
RECURSIVE SmoothFrom(_, _)
SmoothFrom(s, i) ==
    IF i > Len(s)
    THEN s
    ELSE IF is_idle_of(s[i])
         THEN SmoothFrom(SmoothStreak(s, i, StreakEnd(s, i)), ResumeAt(i, StreakEnd(s, i)))
         ELSE SmoothFrom(s, i + 1)

smooth_idle_status(logs) ==
    IF logs = <<>>
    THEN logs
    ELSE LET sorted == sorted_by_timestamp(logs)
             working == [k \in 1..Len(sorted) |->
                            SetKey(sorted[k], "original_is_idle", is_idle_of(sorted[k]))]
         IN  SmoothFrom(working, 1)

(***************************************************************************)
(* compute_focus_streaks                                                   *)
(***************************************************************************)
\* streaks[app], a defaultdict(int)
StreakOf(streaks, app) == IF app \in DOMAIN streaks THEN streaks[app] ELSE 0

Max(a, b) == IF a >= b THEN a ELSE b

\* if current_app and current_streak > 0: streaks[current_app] = max(...)
SaveStreak(st) ==
    IF Truthy(st.current_app) /\ st.current_streak > 0
    THEN SetKey(st.streaks, st.current_app.val,
                Max(StreakOf(st.streaks, st.current_app.val), st.current_streak))
    ELSE st.streaks

\* the body of "for log in logs"
FocusStep(st, log) ==
    LET app == Get(log, "app_name", <<"U","n","k","n","o","w","n">>)
        is_idle == is_idle_of(log)
    IN  IF ~is_idle /\ st.current_app = SomeStr(app)
        THEN [st EXCEPT !.current_streak = @ + SNAPSHOT_INTERVAL]
        ELSE [streaks |-> SaveStreak(st),
              current_app |-> SomeStr(app),
              current_streak |-> IF is_idle THEN 0 ELSE SNAPSHOT_INTERVAL]

RECURSIVE FocusFrom(_, _, _)
FocusFrom(logs, st, i) ==
    IF i > Len(logs) THEN st ELSE FocusFrom(logs, FocusStep(st, logs[i]), i + 1)

compute_focus_streaks(logs) ==
    IF logs = <<>>
    THEN <<>>
    ELSE SaveStreak(FocusFrom(logs,
             [streaks |-> <<>>, current_app |-> NoneStr, current_streak |-> 0], 1))

(***************************************************************************)
(* Browser detection and domain extraction                                 *)
(***************************************************************************)
BROWSERS == << <<"c","h","r","o","m","e">>, <<"f","i","r","e","f","o","x">>,
               <<"e","d","g","e">>, <<"s","a","f","a","r","i">>,
               <<"b","r","a","v","e">>, <<"o","p","e","r","a">>, <<"a","r","c">> >>

\* a name that is a browser's name, rather than one that holds it
HasBrowserNameExact(name) ==
    \E b \in 1..Len(BROWSERS) : BROWSERS[b] = lower(name)

\* any(browser in name.lower() for browser in BROWSERS)
HasBrowserName(name) ==
    \E b \in 1..Len(BROWSERS) : Contains(BROWSERS[b], lower(name))

is_browser(app_name) == HasBrowserName(app_name)

\* str.strip(), for the one whitespace character of the titles: the space
RECURSIVE lstrip(_)
lstrip(s) == IF s # <<>> /\ s[1] = " " THEN lstrip(SubSeq(s, 2, Len(s))) ELSE s

RECURSIVE rstrip(_)
rstrip(s) ==
    IF s # <<>> /\ s[Len(s)] = " " THEN rstrip(SubSeq(s, 1, Len(s) - 1)) ELSE s

strip(s) == rstrip(lstrip(s))

\* window_title.rsplit(sep, 1)[1], for a title that holds sep: what follows
\* the last place where sep occurs
AfterLastSeparator(title, sep) ==
    LET places == {k \in 0..(Len(title) - Len(sep)) :
                      SubSeq(title, k + 1, k + Len(sep)) = sep}
        last == CHOOSE k \in places : \A m \in places : m <= k
    IN  SubSeq(title, last + Len(sep) + 1, Len(title))

DASH == <<" ", "-", " ">>
PIPE == <<" ", "|", " ">>

\* \w, for ASCII
Digits == {"0","1","2","3","4","5","6","7","8","9"}
IsWordChar(c) ==
    \/ \E k \in 1..Len(LowerChars) : LowerChars[k] = c \/ UpperChars[k] = c
    \/ c \in Digits
    \/ c = "_"

\* (com|org|io|net|co|app|dev), the alternatives in the order the regex tries them
TLDS == << <<"c","o","m">>, <<"o","r","g">>, <<"i","o">>, <<"n","e","t">>,
           <<"c","o">>, <<"a","p","p">>, <<"d","e","v">> >>

\* the end of the run of word characters that holds place i
RECURSIVE WordRunEnd(_, _)
WordRunEnd(title, i) ==
    IF i < Len(title) /\ IsWordChar(title[i + 1]) THEN WordRunEnd(title, i + 1) ELSE i

\* the alternatives that match at place i, ignoring case
TldsAt(title, i) ==
    {t \in 1..Len(TLDS) :
        /\ i + Len(TLDS[t]) - 1 <= Len(title)
        /\ lower(SubSeq(title, i, i + Len(TLDS[t]) - 1)) = TLDS[t]}

\* whether r'(\w+\.(com|org|io|net|co|app|dev))' matches from place i: \w+ can
\* only end where the run of word characters ends, since a "." must follow it
DomainMatchesAt(title, i) ==
    /\ IsWordChar(title[i])
    /\ WordRunEnd(title, i) + 1 <= Len(title)
    /\ title[WordRunEnd(title, i) + 1] = "."
    /\ TldsAt(title, WordRunEnd(title, i) + 2) # {}

\* group(1) of the match from place i: the first alternative that matches wins
DomainMatchAt(title, i) ==
    LET dot == WordRunEnd(title, i) + 1
        alts == TldsAt(title, dot + 1)
        t == CHOOSE a \in alts : \A b \in alts : a <= b
    IN  SubSeq(title, i, dot + Len(TLDS[t]))

TruncateTo(s, n) == IF Len(s) > n THEN SubSeq(s, 1, n) ELSE s

UnknownName == <<"U","n","k","n","o","w","n">>

\* the extraction with Pattern 2 (" | ") tried before Pattern 1 (" - ")
extract_domain_pipe_first(window_title) ==
    IF window_title = <<>>
    THEN UnknownName
    ELSE IF /\ Contains(PIPE, window_title)
            /\ ~HasBrowserName(strip(AfterLastSeparator(window_title, PIPE)))
         THEN strip(AfterLastSeparator(window_title, PIPE))
         ELSE IF /\ Contains(DASH, window_title)
                 /\ ~HasBrowserName(strip(AfterLastSeparator(window_title, DASH)))
              THEN strip(AfterLastSeparator(window_title, DASH))
              ELSE IF \E i \in 1..Len(window_title) : DomainMatchesAt(window_title, i)
                   THEN DomainMatchAt(window_title,
                            CHOOSE i \in 1..Len(window_title) :
                                /\ DomainMatchesAt(window_title, i)
                                /\ \A m \in 1..(i - 1) : ~DomainMatchesAt(window_title, m))
                   ELSE TruncateTo(window_title, 30)

extract_domain_from_title(window_title) ==
    IF window_title = <<>>
    THEN UnknownName
    ELSE IF /\ Contains(DASH, window_title)
            /\ ~HasBrowserName(strip(AfterLastSeparator(window_title, DASH)))
         THEN strip(AfterLastSeparator(window_title, DASH))
         ELSE IF /\ Contains(PIPE, window_title)
                 /\ ~HasBrowserName(strip(AfterLastSeparator(window_title, PIPE)))
              THEN strip(AfterLastSeparator(window_title, PIPE))
              ELSE IF \E i \in 1..Len(window_title) : DomainMatchesAt(window_title, i)
                   THEN DomainMatchAt(window_title,
                            CHOOSE i \in 1..Len(window_title) :
                                /\ DomainMatchesAt(window_title, i)
                                /\ \A m \in 1..(i - 1) : ~DomainMatchesAt(window_title, m))
                   ELSE TruncateTo(window_title, 30)

(***************************************************************************)
(* process_logs                                                            *)
(***************************************************************************)
\* sorted(items, key=count, reverse=True): stable, so equal counts keep the
\* dict's insertion order.  keys is the dict's key list, count its counts.
RECURSIVE InsertByCountDesc(_, _, _)
InsertByCountDesc(count, sorted, key) ==
    IF sorted = <<>>
    THEN <<key>>
    ELSE LET last == sorted[Len(sorted)] IN
         IF count[last] >= count[key]
         THEN Append(sorted, key)
         ELSE Append(InsertByCountDesc(count, SubSeq(sorted, 1, Len(sorted) - 1), key), last)

RECURSIVE SortByCountDescFrom(_, _, _, _)
SortByCountDescFrom(count, keys, sorted, i) ==
    IF i > Len(keys)
    THEN sorted
    ELSE SortByCountDescFrom(count, keys, InsertByCountDesc(count, sorted, keys[i]), i + 1)

SortByCountDesc(count, keys) == SortByCountDescFrom(count, keys, <<>>, 1)

\* the default value of app_data
NewAppData == [count |-> 0, idle_count |-> 0, smoothed_count |-> 0,
               total_mouse |-> 0, total_keys |-> 0, input_snapshots |-> 0,
               sub_keys |-> <<>>, sub_activities |-> <<>>]

CountSnapshotIdleTwice(data, is_idle, was_smoothed) ==
    IF is_idle \/ was_smoothed
    THEN [data EXCEPT !.idle_count = @ + 1,
                      !.count = IF was_smoothed THEN @ + 1 ELSE @,
                      !.smoothed_count = IF was_smoothed THEN @ + 1 ELSE @]
    ELSE [data EXCEPT !.count = @ + 1]

\* if is_idle: idle_count += 1 / else: count += 1, and smoothed_count if smoothed
CountSnapshot(data, is_idle, was_smoothed) ==
    IF is_idle
    THEN [data EXCEPT !.idle_count = @ + 1]
    ELSE [data EXCEPT !.count = @ + 1,
                      !.smoothed_count = IF was_smoothed THEN @ + 1 ELSE @]

\* if mouse > 0 or keys > 0: the input totals of the application
CountInput(data, mouse, keys) ==
    IF mouse > 0 \/ keys > 0
    THEN [data EXCEPT !.total_mouse = @ + mouse, !.total_keys = @ + keys,
                      !.input_snapshots = @ + 1]
    ELSE data

\* the key under which an active snapshot with a title is counted
SubActivityOf(app_name, window_title) ==
    IF is_browser(app_name)
    THEN extract_domain_from_title(window_title)
    ELSE TruncateTo(window_title, 60)

\* if window_title and not is_idle: ... if sub_activity: sub_activities[it] += 1
CountSubActivity(data, app_name, window_title, is_idle) ==
    IF window_title # <<>> /\ ~is_idle /\ SubActivityOf(app_name, window_title) # <<>>
    THEN LET sub == SubActivityOf(app_name, window_title) IN
         IF sub \in DOMAIN data.sub_activities
         THEN [data EXCEPT !.sub_activities = SetKey(@, sub, @[sub] + 1)]
         ELSE [data EXCEPT !.sub_keys = Append(@, sub),
                           !.sub_activities = SetKey(@, sub, 1)]
    ELSE data

\* the body of "for log in smoothed_logs" (Step 5)
AggregateStep(acc, log) ==
    LET app_name == Get(log, "app_name", UnknownName)
        is_idle == is_idle_of(log)
        was_smoothed == Get(log, "smoothed", FALSE)
        window_title == Get(log, "window_title", <<>>)
        mouse == Get(log, "mouse_count", 0)
        keys == Get(log, "key_count", 0)
        old == IF app_name \in DOMAIN acc.app_data THEN acc.app_data[app_name] ELSE NewAppData
        new == CountSubActivity(
                   CountInput(CountSnapshot(old, is_idle, was_smoothed), mouse, keys),
                   app_name, window_title, is_idle)
    IN  [app_keys |-> IF app_name \in DOMAIN acc.app_data
                      THEN acc.app_keys ELSE Append(acc.app_keys, app_name),
         app_data |-> SetKey(acc.app_data, app_name, new),
         total_gap_seconds |-> IF Get(log, "after_gap", FALSE)
                               THEN acc.total_gap_seconds + Get(log, "gap_seconds", 0)
                               ELSE acc.total_gap_seconds]

RECURSIVE AggregateFrom(_, _, _)
AggregateFrom(logs, acc, i) ==
    IF i > Len(logs) THEN acc ELSE AggregateFrom(logs, AggregateStep(acc, logs[i]), i + 1)

\* one entry of the report's apps list (Step 6)
AppEntry(app_name, data, focus_streaks, interval_seconds) ==
    [name |-> app_name,
     duration_seconds |-> data.count * interval_seconds + data.idle_count * interval_seconds,
     active_seconds |-> data.count * interval_seconds,
     is_browser |-> is_browser(app_name),
     longest_focus_streak_seconds |-> StreakOf(focus_streaks, app_name),
     sub_activities |->
        LET order == SortByCountDesc(data.sub_activities, data.sub_keys) IN
        [k \in 1..Len(order) |->
            [name |-> order[k],
             duration_seconds |-> data.sub_activities[order[k]] * interval_seconds]]]

RECURSIVE SumOver(_, _, _)
SumOver(f, keys, i) == IF i > Len(keys) THEN 0 ELSE f[keys[i]] + SumOver(f, keys, i + 1)

\* sum(1 for log in logs if ...)
RECURSIVE CountIdle(_, _)
CountIdle(logs, i) ==
    IF i > Len(logs) THEN 0
    ELSE (IF is_idle_of(logs[i]) THEN 1 ELSE 0) + CountIdle(logs, i + 1)

\* the total_seconds below 360 for which total_seconds / 3600 lies halfway
\* between two hundredths and the double nearest to it lies above the halfway
\* point (at 54, 162 and 270 it lies below)
HalfwayDoubleAbove == {18, 90, 126, 198, 234, 306, 342}

\* round(total_seconds / 3600, 2), in hundredths of an hour: round() goes by
\* the double's exact value, so a halfway quotient goes where its double lies
total_hours(total_seconds) ==
    LET q == (100 * total_seconds) \div 3600
        r == (100 * total_seconds) % 3600
    IN  IF 2 * r < 3600 THEN q
        ELSE IF 2 * r > 3600 THEN q + 1
        ELSE IF total_seconds \in HalfwayDoubleAbove THEN q + 1 ELSE q

EmptyReportWithUnknownApp ==
    [total_hours |-> 0, total_active_seconds |-> 0, total_idle_seconds |-> 0,
     raw_active_seconds |-> 0, raw_idle_seconds |-> 0,
     smoothed_recovered_seconds |-> 0, gap_seconds |-> 0,
     apps |-> << [name |-> UnknownName, duration_seconds |-> 0, active_seconds |-> 0,
                  is_browser |-> FALSE, longest_focus_streak_seconds |-> 0,
                  sub_activities |-> <<>>] >>]

\* if not logs: return {...}
EmptyReport ==
    [total_hours |-> 0, total_active_seconds |-> 0, total_idle_seconds |-> 0,
     raw_active_seconds |-> 0, raw_idle_seconds |-> 0,
     smoothed_recovered_seconds |-> 0, gap_seconds |-> 0, apps |-> <<>>]

\* Steps 3 to 6 of process_logs, from the caller's list as detect_gaps left
\* it and the smoothed list.  The report without its date and its formatted
\* durations (text) and without input_intensity (a float rounded for
\* display); total_hours in hundredths.
ReportOf(input, smoothed, interval_seconds) ==
    LET raw_idle == CountIdle(input, 1)
        raw_active == Len(input) - raw_idle
        focus_streaks == compute_focus_streaks(smoothed)
        acc == AggregateFrom(smoothed,
                   [app_keys |-> <<>>, app_data |-> <<>>, total_gap_seconds |-> 0], 1)
        order == SortByCountDesc([a \in DOMAIN acc.app_data |-> acc.app_data[a].count],
                                 acc.app_keys)
    IN  [total_hours |->
            total_hours(SumOver([a \in DOMAIN acc.app_data |->
                                    (acc.app_data[a].count + acc.app_data[a].idle_count)
                                        * interval_seconds], order, 1)),
         total_active_seconds |->
            SumOver([a \in DOMAIN acc.app_data |-> acc.app_data[a].count * interval_seconds],
                    order, 1),
         total_idle_seconds |->
            SumOver([a \in DOMAIN acc.app_data |-> acc.app_data[a].idle_count * interval_seconds],
                    order, 1),
         raw_active_seconds |-> raw_active * interval_seconds,
         raw_idle_seconds |-> raw_idle * interval_seconds,
         smoothed_recovered_seconds |->
            SumOver([a \in DOMAIN acc.app_data |-> acc.app_data[a].smoothed_count * interval_seconds],
                    order, 1),
         gap_seconds |-> acc.total_gap_seconds,
         apps |-> [k \in 1..Len(order) |->
                     AppEntry(order[k], acc.app_data[order[k]], focus_streaks,
                              interval_seconds)]]

\* what process_logs returns when it does not raise
process_logs(logs, interval_seconds) ==
    IF logs = <<>>
    THEN EmptyReport
    ELSE ReportOf(input_after_detect_gaps(logs), smooth_idle_status(detect_gaps(logs)),
                  interval_seconds)

\* process_logs raises: the only statements that can are those of detect_gaps
\* (a second sorted() in smooth_idle_status compares the same keys)
process_logs_raises(logs) == logs # <<>> /\ detect_gaps_raises(logs)

(***************************************************************************)
(* Domain categorization (categorization.py)                               *)
(***************************************************************************)
\* the default lists
PRODUCTIVE_DOMAINS == {
    <<"g","i","t","h","u","b",".","c","o","m">>,   \* github.com
    <<"g","i","t","l","a","b",".","c","o","m">>,   \* gitlab.com
    <<"b","i","t","b","u","c","k","e","t",".","o","r","g">>,   \* bitbucket.org
    <<"s","t","a","c","k","o","v","e","r","f","l","o","w",".","c","o","m">>,   \* stackoverflow.com
    <<"d","e","v","e","l","o","p","e","r",".","m","o","z","i","l","l","a",".","o","r","g">>,   \* developer.mozilla.org
    <<"s","l","a","c","k",".","c","o","m">>,   \* slack.com
    <<"t","e","a","m","s",".","m","i","c","r","o","s","o","f","t",".","c","o","m">>,   \* teams.microsoft.com
    <<"d","i","s","c","o","r","d",".","c","o","m">>,   \* discord.com
    <<"z","o","o","m",".","u","s">>,   \* zoom.us
    <<"n","o","t","i","o","n",".","s","o">>,   \* notion.so
    <<"t","r","e","l","l","o",".","c","o","m">>,   \* trello.com
    <<"a","s","a","n","a",".","c","o","m">>,   \* asana.com
    <<"j","i","r","a",".","a","t","l","a","s","s","i","a","n",".","c","o","m">>,   \* jira.atlassian.com
    <<"c","o","n","f","l","u","e","n","c","e",".","a","t","l","a","s","s","i","a","n",".","c","o","m">>,   \* confluence.atlassian.com
    <<"m","o","n","d","a","y",".","c","o","m">>,   \* monday.com
    <<"c","l","i","c","k","u","p",".","c","o","m">>,   \* clickup.com
    <<"d","o","c","s",".","g","o","o","g","l","e",".","c","o","m">>,   \* docs.google.com
    <<"s","h","e","e","t","s",".","g","o","o","g","l","e",".","c","o","m">>,   \* sheets.google.com
    <<"s","l","i","d","e","s",".","g","o","o","g","l","e",".","c","o","m">>,   \* slides.google.com
    <<"d","r","i","v","e",".","g","o","o","g","l","e",".","c","o","m">>,   \* drive.google.com
    <<"c","a","l","e","n","d","a","r",".","g","o","o","g","l","e",".","c","o","m">>,   \* calendar.google.com
    <<"m","a","i","l",".","g","o","o","g","l","e",".","c","o","m">>,   \* mail.google.com
    <<"o","u","t","l","o","o","k",".","o","f","f","i","c","e",".","c","o","m">>,   \* outlook.office.com
    <<"o","f","f","i","c","e",".","c","o","m">>,   \* office.com
    <<"o","n","e","d","r","i","v","e",".","c","o","m">>,   \* onedrive.com
    <<"f","i","g","m","a",".","c","o","m">>,   \* figma.com
    <<"c","a","n","v","a",".","c","o","m">>,   \* canva.com
    <<"a","d","o","b","e",".","c","o","m">>,   \* adobe.com
    <<"c","o","n","s","o","l","e",".","a","w","s",".","a","m","a","z","o","n",".","c","o","m">>,   \* console.aws.amazon.com
    <<"c","o","n","s","o","l","e",".","c","l","o","u","d",".","g","o","o","g","l","e",".","c","o","m">>,   \* console.cloud.google.com
    <<"p","o","r","t","a","l",".","a","z","u","r","e",".","c","o","m">>,   \* portal.azure.com
    <<"v","e","r","c","e","l",".","c","o","m">>,   \* vercel.com
    <<"r","a","i","l","w","a","y",".","a","p","p">>,   \* railway.app
    <<"h","e","r","o","k","u",".","c","o","m">>,   \* heroku.com
    <<"u","d","e","m","y",".","c","o","m">>,   \* udemy.com
    <<"c","o","u","r","s","e","r","a",".","o","r","g">>,   \* coursera.org
    <<"l","i","n","k","e","d","i","n",".","c","o","m","/","l","e","a","r","n","i","n","g">>   \* linkedin.com/learning
}

DISTRACTION_DOMAINS == {
    <<"f","a","c","e","b","o","o","k",".","c","o","m">>,   \* facebook.com
    <<"t","w","i","t","t","e","r",".","c","o","m">>,   \* twitter.com
    <<"x",".","c","o","m">>,   \* x.com
    <<"i","n","s","t","a","g","r","a","m",".","c","o","m">>,   \* instagram.com
    <<"t","i","k","t","o","k",".","c","o","m">>,   \* tiktok.com
    <<"s","n","a","p","c","h","a","t",".","c","o","m">>,   \* snapchat.com
    <<"p","i","n","t","e","r","e","s","t",".","c","o","m">>,   \* pinterest.com
    <<"y","o","u","t","u","b","e",".","c","o","m">>,   \* youtube.com
    <<"n","e","t","f","l","i","x",".","c","o","m">>,   \* netflix.com
    <<"h","u","l","u",".","c","o","m">>,   \* hulu.com
    <<"d","i","s","n","e","y","p","l","u","s",".","c","o","m">>,   \* disneyplus.com
    <<"p","r","i","m","e","v","i","d","e","o",".","c","o","m">>,   \* primevideo.com
    <<"t","w","i","t","c","h",".","t","v">>,   \* twitch.tv
    <<"s","p","o","t","i","f","y",".","c","o","m">>,   \* spotify.com
    <<"s","t","e","a","m","p","o","w","e","r","e","d",".","c","o","m">>,   \* steampowered.com
    <<"e","p","i","c","g","a","m","e","s",".","c","o","m">>,   \* epicgames.com
    <<"r","o","b","l","o","x",".","c","o","m">>,   \* roblox.com
    <<"r","e","d","d","i","t",".","c","o","m">>,   \* reddit.com
    <<"9","g","a","g",".","c","o","m">>,   \* 9gag.com
    <<"b","u","z","z","f","e","e","d",".","c","o","m">>,   \* buzzfeed.com
    <<"a","m","a","z","o","n",".","c","o","m">>,   \* amazon.com
    <<"e","b","a","y",".","c","o","m">>,   \* ebay.com
    <<"e","t","s","y",".","c","o","m">>,   \* etsy.com
    <<"a","l","i","e","x","p","r","e","s","s",".","c","o","m">>   \* aliexpress.com
}

\* class CategoryType
PRODUCTIVE == "productive"
DISTRACTION == "distraction"
NEUTRAL == "neutral"

\* a match on the ending alone, without the "." before the listed domain
MatchesDomainBySuffix(domain_lower, listed) == EndsWith(domain_lower, listed)

\* domain_lower == listed or domain_lower.endswith(f".{listed}")
MatchesDomain(domain_lower, listed) ==
    domain_lower = listed \/ EndsWith(domain_lower, <<".">> \o listed)

\* the for loop over a default set: whether some entry returns
InDefaultList(domain_lower, listed_domains) ==
    \E listed \in listed_domains : MatchesDomain(domain_lower, listed)

DefaultCategoryDistractionFirst(domain_lower) ==
    IF InDefaultList(domain_lower, DISTRACTION_DOMAINS) THEN DISTRACTION
    ELSE IF InDefaultList(domain_lower, PRODUCTIVE_DOMAINS) THEN PRODUCTIVE
    ELSE NEUTRAL

\* the productive loop runs to its end before the distraction loop starts
DefaultCategory(domain_lower) ==
    IF InDefaultList(domain_lower, PRODUCTIVE_DOMAINS) THEN PRODUCTIVE
    ELSE IF InDefaultList(domain_lower, DISTRACTION_DOMAINS) THEN DISTRACTION
    ELSE NEUTRAL

categorize_domain(rules, domain) ==
    LET domain_lower == lower(domain) IN
    IF domain_lower \in DOMAIN rules
    THEN [domain |-> domain, category |-> rules[domain_lower], source |-> "custom"]
    ELSE [domain |-> domain, category |-> DefaultCategory(domain_lower),
          source |-> "default"]

\* the rule stored under the domain as the caller wrote it
add_custom_rule_as_written(rules, domain, category_type) ==
    SetKey(rules, domain, category_type)

\* _custom_rules[domain.lower()] = category_type
add_custom_rule(rules, domain, category_type) ==
    SetKey(rules, lower(domain), category_type)

\* _custom_rules.pop(domain.lower(), None): the dict afterwards
remove_custom_rule(rules, domain) ==
    [key \in DOMAIN rules \ {lower(domain)} |-> rules[key]]

\* ... is not None: what remove_custom_rule returns
RemovedRule(rules, domain) == lower(domain) \in DOMAIN rules

(***************************************************************************)
(* Team rules and scoring (api/teams.py)                                   *)
(***************************************************************************)
\* rule.match_type of an unrecognized value matches nothing
RuleMatchesKnownTypesOnly(rule, app_name, title) ==
    LET pattern == lower(rule.app_pattern) IN
    IF rule.match_type = "exact"
    THEN pattern = lower(app_name) \/ pattern = lower(title)
    ELSE IF rule.match_type = "startswith"
         THEN StartsWith(lower(app_name), pattern) \/ StartsWith(lower(title), pattern)
         ELSE rule.match_type = "contains"
              /\ Contains(pattern, lower(app_name \o <<" ">> \o title))

\* the body of classify_activity's loop: the value of match
RuleMatches(rule, app_name, title) ==
    LET pattern == lower(rule.app_pattern) IN
    IF rule.match_type = "exact"
    THEN pattern = lower(app_name) \/ pattern = lower(title)
    ELSE IF rule.match_type = "startswith"
         THEN StartsWith(lower(app_name), pattern) \/ StartsWith(lower(title), pattern)
         ELSE Contains(pattern, lower(app_name \o <<" ">> \o title))

RECURSIVE ClassifyFrom(_, _, _, _)
ClassifyFrom(app_name, title, rules, i) ==
    IF i > Len(rules) THEN "neutral"
    ELSE IF RuleMatches(rules[i], app_name, title) THEN rules[i].category
    ELSE ClassifyFrom(app_name, title, rules, i + 1)

\* window_title is a str here: the callers pass log.window_title or ""
classify_activity(app_name, title, rules) == ClassifyFrom(app_name, title, rules, 1)

\* INTERVAL = 5  # seconds per log entry
INTERVAL == 5

\* round(x) for x = num / den >= 0: the nearest integer, a tie going to the even one
RoundHalfUp(num, den) == (2 * num + den) \div (2 * den)

RoundHalfEven(num, den) ==
    LET q == num \div den
        r == num % den
    IN  IF 2 * r < den THEN q
        ELSE IF 2 * r > den THEN q + 1
        ELSE IF q % 2 = 0 THEN q ELSE q + 1

\* round((productive / denom) * 100) if denom > 0 else 0.  The float
\* productive / denom * 100 rounds as the exact quotient does for every denom
\* below 40 intervals, the first difference being 23 / 40.
Score(productive, non_productive) ==
    IF productive + non_productive > 0
    THEN RoundHalfEven(100 * productive, productive + non_productive)
    ELSE 0

\* the rows of a member the query returns: is_idle == False
ActiveRows(rows) == SelectSeq(rows, LAMBDA row : ~row.is_idle)

\* the three counters after the loop over a member's rows
RECURSIVE CountCategories(_, _, _, _)
CountCategories(rows, rules, acc, i) ==
    IF i > Len(rows) THEN acc
    ELSE LET category == classify_activity(rows[i].app_name, rows[i].window_title, rules) IN
         CountCategories(rows, rules,
             IF category = "productive"
             THEN [acc EXCEPT !.productive_seconds = @ + INTERVAL]
             ELSE IF category = "non_productive"
                  THEN [acc EXCEPT !.non_productive_seconds = @ + INTERVAL]
                  ELSE [acc EXCEPT !.neutral_seconds = @ + INTERVAL],
             i + 1)

\* top_apps[display_name][category] += INTERVAL raises KeyError for a category
\* that is not a key of {"productive": 0, "neutral": 0, "non_productive": 0}
TopAppsKeyError(rows, rules) ==
    \E i \in 1..Len(rows) :
        classify_activity(rows[i].app_name, rows[i].window_title, rules)
            \notin {"productive", "neutral", "non_productive"}

\* one entry of member_reports, without name, email and top_apps
MemberReport(user_id, rows, rules) ==
    LET logs == ActiveRows(rows)
        secs == CountCategories(logs, rules,
                    [productive_seconds |-> 0, neutral_seconds |-> 0,
                     non_productive_seconds |-> 0], 1)
    IN  [user_id |-> user_id,
         productive_seconds |-> secs.productive_seconds,
         neutral_seconds |-> secs.neutral_seconds,
         non_productive_seconds |-> secs.non_productive_seconds,
         productivity_score |-> Score(secs.productive_seconds, secs.non_productive_seconds),
         total_logs |-> Len(logs)]

RECURSIVE SumField(_, _, _)
SumField(reports, field, i) ==
    IF i > Len(reports) THEN 0 ELSE reports[i][field] + SumField(reports, field, i + 1)

\* a summary whose score is the mean of the members' scores
TeamSummaryAveragingScores(member_reports) ==
    [total_productive_seconds |-> SumField(member_reports, "productive_seconds", 1),
     total_neutral_seconds |-> SumField(member_reports, "neutral_seconds", 1),
     total_non_productive_seconds |-> SumField(member_reports, "non_productive_seconds", 1),
     team_productivity_score |->
        IF member_reports = <<>>
        THEN 0
        ELSE RoundHalfEven(SumField(member_reports, "productivity_score", 1),
                           Len(member_reports)),
     member_count |-> Len(member_reports)]

\* the response's summary
TeamSummary(member_reports) ==
    LET team_productive == SumField(member_reports, "productive_seconds", 1)
        team_neutral == SumField(member_reports, "neutral_seconds", 1)
        team_non_productive == SumField(member_reports, "non_productive_seconds", 1)
    IN  [total_productive_seconds |-> team_productive,
         total_neutral_seconds |-> team_neutral,
         total_non_productive_seconds |-> team_non_productive,
         team_productivity_score |-> Score(team_productive, team_non_productive),
         member_count |-> Len(member_reports)]

\* the response of get_team_productivity: status 500 when the loop raises
get_team_productivity(members, rules, logs) ==
    IF members = <<>>
    THEN [status |-> 200, members |-> <<>>, summary |-> TeamSummary(<<>>)]
    ELSE IF \E m \in 1..Len(members) : TopAppsKeyError(ActiveRows(logs[members[m]]), rules)
         THEN [status |-> 500]
         ELSE LET member_reports ==
                      [m \in 1..Len(members) |->
                          MemberReport(members[m], logs[members[m]], rules)]
              IN  [status |-> 200, members |-> member_reports,
                   summary |-> TeamSummary(member_reports)]

\* the counters of compare_teams after the loops over the members and their rows
RECURSIVE CompareCounts(_, _, _, _, _)
CompareCounts(members, rules, logs, acc, m) ==
    IF m > Len(members) THEN acc
    ELSE LET rows == ActiveRows(logs[members[m]])
             counted == CountCategories(rows, rules, acc.seconds, 1)
         IN  CompareCounts(members, rules, logs,
                 [seconds |-> counted,
                  active_count |-> IF rows # <<>> THEN acc.active_count + 1
                                   ELSE acc.active_count],
                 m + 1)

\* the entry compare_teams appends for a team
ComparisonEntry(members, rules, logs) ==
    IF members = <<>>
    THEN [productivity_score |-> 0, productive_seconds |-> 0, neutral_seconds |-> 0,
          non_productive_seconds |-> 0, member_count |-> 0, active_members |-> 0]
    ELSE LET acc == CompareCounts(members, rules, logs,
                        [seconds |-> [productive_seconds |-> 0, neutral_seconds |-> 0,
                                      non_productive_seconds |-> 0],
                         active_count |-> 0], 1)
         IN  [productivity_score |->
                 Score(acc.seconds.productive_seconds, acc.seconds.non_productive_seconds),
              productive_seconds |-> acc.seconds.productive_seconds,
              neutral_seconds |-> acc.seconds.neutral_seconds,
              non_productive_seconds |-> acc.seconds.non_productive_seconds,
              member_count |-> Len(members),
              active_members |-> acc.active_count]

\* the response of compare_teams with one team in the database: the list of
\* one entry is its own sort by score
compare_teams(members, rules, logs) ==
    [status |-> 200, teams |-> <<ComparisonEntry(members, rules, logs)>>]

(***************************************************************************)
(* The daily report: the agent uploads snapshots (sync_desktop_logs), a    *)
(* report request reads the day's rows in timestamp order and hands them   *)
(* to process_logs.                                                        *)
(***************************************************************************)
MaxSyncs == 3
MaxSnapshots == 16

EditorApp == <<"E","d","i","t","o","r">>
BrowserApp == <<"B","r","o","w","s","e","r">>
NoApp == <<>>

\* the application names the agent reports (app_name: str, may be empty)
Apps == {EditorApp, BrowserApp, NoApp}

\* the numbers of snapshots one upload holds: idle streaks of 15 s, 60 s, 65 s
ActiveLengths == {1}
IdleLengths == {3, 12, 13}

\* the seconds between the last stored snapshot and the upload's first one
Elapsed == {SNAPSHOT_INTERVAL, GAP_THRESHOLD + 1}

\* the same, where only gap detection is looked at
GapElapsed == {0, SNAPSHOT_INTERVAL, GAP_THRESHOLD, GAP_THRESHOLD + 1, GAP_THRESHOLD + 100}

\* the interval_seconds a caller passes to process_logs
Intervals == {SNAPSHOT_INTERVAL, 2 * SNAPSHOT_INTERVAL}

LastTimestamp == IF db_logs = <<>> THEN 0 ELSE db_logs[Len(db_logs)]["timestamp"].seconds

\* DesktopActivityLog(timestamp=..., app_name=..., window_title=..., ...)
Snapshot(timestamp, app_name, is_idle) ==
    [timestamp |-> Datetime(timestamp), app_name |-> app_name, window_title |-> <<>>,
     is_idle |-> is_idle, mouse_count |-> 0, key_count |-> 0]

ReportInit ==
    /\ db_logs = <<>>
    /\ sync_count = 0
    /\ log_dicts = <<>>
    /\ logs_with_gaps = <<>>
    /\ smoothed_logs = <<>>
    /\ report = EmptyReport
    /\ interval = SNAPSHOT_INTERVAL
    /\ responded = FALSE

\* sync_desktop_logs: n snapshots of one application, one interval apart
SyncDesktopLogs(app_name, is_idle, n, elapsed) ==
    /\ sync_count < MaxSyncs
    /\ Len(db_logs) + n <= MaxSnapshots
    /\ sync_count' = sync_count + 1
    /\ db_logs' = db_logs \o
          [k \in 1..n |->
              Snapshot(LastTimestamp + elapsed + (k - 1) * SNAPSHOT_INTERVAL, app_name, is_idle)]
    /\ log_dicts' = <<>>
    /\ logs_with_gaps' = <<>>
    /\ smoothed_logs' = <<>>
    /\ report' = EmptyReport
    /\ interval' = SNAPSHOT_INTERVAL
    /\ responded' = FALSE
    /\ UNCHANGED <<callVars, titleVars, ruleVars, activityVars, teamVars>>

\* get_daily_report: process_logs on the day's rows
GetDailyReport(interval_seconds) ==
    /\ ~responded
    /\ log_dicts' = input_after_detect_gaps(db_logs)
    /\ logs_with_gaps' = detect_gaps(db_logs)
    /\ smoothed_logs' = smooth_idle_status(detect_gaps(db_logs))
    /\ report' = process_logs(db_logs, interval_seconds)
    /\ interval' = interval_seconds
    /\ responded' = TRUE
    /\ UNCHANGED <<callVars, db_logs, sync_count, titleVars, ruleVars, activityVars, teamVars>>

\* the first upload of the day has no snapshot before it
ElapsedNow == IF db_logs = <<>> THEN {SNAPSHOT_INTERVAL} ELSE Elapsed

Next ==
    \/ \E app_name \in Apps, n \in ActiveLengths, elapsed \in ElapsedNow :
          SyncDesktopLogs(app_name, FALSE, n, elapsed)
    \/ \E app_name \in Apps, n \in IdleLengths, elapsed \in ElapsedNow :
          SyncDesktopLogs(app_name, TRUE, n, elapsed)
    \/ \E interval_seconds \in Intervals : GetDailyReport(interval_seconds)

\* Gap detection alone: single active snapshots, any time apart
NextGaps ==
    \/ \E elapsed \in GapElapsed : SyncDesktopLogs(EditorApp, FALSE, 1, elapsed)
    \/ GetDailyReport(SNAPSHOT_INTERVAL)


(***************************************************************************)
(* Sub-activities: process_logs reads the title of an active snapshot      *)
(***************************************************************************)
MaxTitleTokens == 3

\* the parts a browser puts into a window title
TitleTokens ==
    { <<"F","u","n","n","y"," ","C","a","t"," ","V","i","d","e","o">>,
      <<"Y","o","u","T","u","b","e">>,
      <<"g","o","o","g","l","e",".","c","o","m">>,
      <<"S","e","a","r","c","h">>,
      <<"G","o","o","g","l","e"," ","C","h","r","o","m","e">>,
      DASH, PIPE }

RECURSIVE TitlesOf(_)
TitlesOf(n) ==
    IF n = 0 THEN {<<>>}
    ELSE TitlesOf(n - 1) \cup {t \o token : t \in TitlesOf(n - 1), token \in TitleTokens}

ChromeApp == <<"c","h","r","o","m","e">>
GoogleChromeApp == <<"G","o","o","g","l","e"," ","C","h","r","o","m","e">>
TitleApps == {ChromeApp, GoogleChromeApp, EditorApp}

TitleInit ==
    /\ title_app = <<>>
    /\ snapshot_title = <<>>
    /\ sub_activity = NoneStr

\* if window_title and not is_idle: sub_activity = ...
ExtractSubActivity ==
    /\ sub_activity = NoneStr
    /\ snapshot_title # <<>>
    /\ sub_activity' = SomeStr(SubActivityOf(title_app, snapshot_title))
    /\ UNCHANGED <<callVars, title_app, snapshot_title, reportVars, ruleVars, activityVars, teamVars>>

(***************************************************************************)
(* The rules API (api/rules.py) over categorization._custom_rules          *)
(***************************************************************************)
MaxCustomRules == 2

\* the domains a caller names
Domains ==
    { <<"d","o","c","s",".","g","o","o","g","l","e",".","c","o","m">>,
      <<"s","u","b",".","d","o","c","s",".","g","o","o","g","l","e",".","c","o","m">>,
      <<"n","o","t","d","o","c","s",".","g","o","o","g","l","e",".","c","o","m">>,
      <<"c","o","n","s","o","l","e",".","a","w","s",".","a","m","a","z","o","n",".","c","o","m">>,
      <<"e","x","a","m","p","l","e",".","c","o","m">>,
      <<"E","x","a","m","p","l","e",".","C","O","M">>,
      <<"s","u","b",".","e","x","a","m","p","l","e",".","c","o","m">>,
      <<"Y","o","u","T","u","b","e",".","c","o","m">> }

\* valid_categories of add_rule
Categories == {PRODUCTIVE, DISTRACTION, NEUTRAL}

NoResponse == [op |-> "none"]

RuleInit ==
    /\ custom_rules = <<>>
    /\ rule_response = NoResponse

\* POST /rules with a valid category
AddRule(domain, category) ==
    /\ Cardinality(DOMAIN add_custom_rule(custom_rules, domain, category)) <= MaxCustomRules
    /\ custom_rules' = add_custom_rule(custom_rules, domain, category)
    /\ rule_response' = [op |-> "add", success |-> TRUE, domain |-> domain,
                         category |-> category]
    /\ UNCHANGED <<callVars, reportVars, titleVars, activityVars, teamVars>>

\* DELETE /rules/{domain}: 404 when there was no rule
DeleteRule(domain) ==
    /\ custom_rules' = remove_custom_rule(custom_rules, domain)
    /\ rule_response' = [op |-> "delete", success |-> RemovedRule(custom_rules, domain),
                         domain |-> domain]
    /\ UNCHANGED <<callVars, reportVars, titleVars, activityVars, teamVars>>

\* GET /categorize/{domain}
CategorizeSingleDomain(domain) ==
    /\ rule_response' = [op |-> "categorize",
                         result |-> categorize_domain(custom_rules, domain)]
    /\ UNCHANGED <<callVars, custom_rules, reportVars, titleVars, activityVars, teamVars>>

NextRules ==
    \/ \E domain \in Domains, category \in Categories : AddRule(domain, category)
    \/ \E domain \in Domains : DeleteRule(domain)
    \/ \E domain \in Domains : CategorizeSingleDomain(domain)

(***************************************************************************)
(* classify_activity on one activity                                       *)
(***************************************************************************)
MaxRules == 2

CodePattern == <<"c","o","d","e">>
VSCodePattern == <<"V","S"," ","C","o","d","e">>
AcrossPattern == <<"e"," ","m">>
Patterns == {CodePattern, VSCodePattern, AcrossPattern}

\* RuleCreate.category and RuleCreate.match_type are any str
RuleCategories == {"productive", "non_productive"}
MatchTypes == {"exact", "startswith", "contains", "regex"}

RuleChoices ==
    [app_pattern : Patterns, category : RuleCategories, match_type : MatchTypes]

RuleLists == UNION {[1..n -> RuleChoices] : n \in 0..MaxRules}

VSCodeApp == <<"V","S"," ","C","o","d","e">>
TerminalApp == <<"T","e","r","m","i","n","a","l">>
SlackApp == <<"S","l","a","c","k">>
MainPy == <<"m","a","i","n",".","p","y">>
VSCodeTips == <<"V","S"," ","C","o","d","e"," ","t","i","p","s">>

\* the activities classified: app_name and window_title
Activities ==
    { <<VSCodeApp, MainPy>>, <<TerminalApp, VSCodeTips>>,
      <<TerminalApp, CodePattern>>, <<SlackApp, <<>> >> }

NotReturned == [returned |-> FALSE]
Returned(value) == [returned |-> TRUE, value |-> value]

NoActivity == [app_name |-> <<>>, window_title |-> <<>>, rules |-> <<>>]

ActivityInit ==
    /\ activity = NoActivity
    /\ activity_category = NotReturned

ClassifyActivity ==
    /\ activity_category = NotReturned
    /\ activity_category' =
           Returned(classify_activity(activity.app_name, activity.window_title,
                                      activity.rules))
    /\ UNCHANGED <<callVars, activity, reportVars, titleVars, ruleVars, teamVars>>


(***************************************************************************)
(* Team productivity: users are assigned to the team, the admin adds       *)
(* rules, the agents upload snapshots, the admin asks for the report       *)
(***************************************************************************)
MaxTeamSyncs == 3

Users == {"u1", "u2"}

CodeRule == [app_pattern |-> CodePattern, category |-> "productive",
             match_type |-> "contains"]
SlackRule == [app_pattern |-> <<"s","l","a","c","k">>, category |-> "non_productive",
              match_type |-> "contains"]
MeetingRule == [app_pattern |-> <<"t","e","r","m","i","n","a","l">>,
                category |-> "meeting", match_type |-> "contains"]

\* the bodies of POST /teams/{team_id}/rules
TeamRuleChoices == {CodeRule, SlackRule, MeetingRule}

\* the uploads of a user's agent: app_name, is_idle, number of snapshots
TeamUploads(user_id) ==
    IF user_id = "u1"
    THEN { <<VSCodeApp, FALSE, 1>>, <<SlackApp, FALSE, 7>>,
           <<TerminalApp, FALSE, 1>>, <<TerminalApp, TRUE, 1>> }
    ELSE { <<VSCodeApp, FALSE, 1>>, <<TerminalApp, FALSE, 1>> }

TeamInit ==
    /\ team_members = <<>>
    /\ team_rules = <<>>
    /\ team_logs = [user_id \in Users |-> <<>>]
    /\ team_syncs = 0
    /\ team_response = NotReturned
    /\ compare_response = NotReturned

\* assign_user_to_team: user.team_id = body.team_id
AssignUserToTeam(user_id) ==
    /\ \A m \in 1..Len(team_members) : team_members[m] # user_id
    /\ team_members' = Append(team_members, user_id)
    /\ team_response' = NotReturned
    /\ compare_response' = NotReturned
    /\ UNCHANGED <<callVars, team_rules, team_logs, team_syncs,
                   reportVars, titleVars, ruleVars, activityVars>>

\* add_team_rule: 409 when the team has a rule for the pattern
AddTeamRule(body) ==
    /\ \A r \in 1..Len(team_rules) : team_rules[r].app_pattern # body.app_pattern
    /\ team_rules' = Append(team_rules, body)
    /\ team_response' = NotReturned
    /\ compare_response' = NotReturned
    /\ UNCHANGED <<callVars, team_members, team_logs, team_syncs,
                   reportVars, titleVars, ruleVars, activityVars>>

\* sync_desktop_logs of one user: n snapshots of one application
SyncTeamLogs(user_id, app_name, is_idle, n) ==
    /\ team_syncs < MaxTeamSyncs
    /\ team_syncs' = team_syncs + 1
    /\ team_logs' = [team_logs EXCEPT ![user_id] =
                        @ \o [k \in 1..n |-> [app_name |-> app_name,
                                              window_title |-> <<>>,
                                              is_idle |-> is_idle]]]
    /\ team_response' = NotReturned
    /\ compare_response' = NotReturned
    /\ UNCHANGED <<callVars, team_members, team_rules,
                   reportVars, titleVars, ruleVars, activityVars>>

GetTeamProductivity ==
    /\ team_response = NotReturned
    /\ team_response' = Returned(get_team_productivity(team_members, team_rules, team_logs))
    /\ UNCHANGED <<callVars, team_members, team_rules, team_logs, team_syncs,
                   compare_response, reportVars, titleVars, ruleVars, activityVars>>

CompareTeams ==
    /\ compare_response = NotReturned
    /\ compare_response' = Returned(compare_teams(team_members, team_rules, team_logs))
    /\ UNCHANGED <<callVars, team_members, team_rules, team_logs, team_syncs,
                   team_response, reportVars, titleVars, ruleVars, activityVars>>

NextTeam ==
    \/ \E user_id \in Users : AssignUserToTeam(user_id)
    \/ \E body \in TeamRuleChoices : AddTeamRule(body)
    \/ \E user_id \in Users : \E upload \in TeamUploads(user_id) :
          SyncTeamLogs(user_id, upload[1], upload[2], upload[3])
    \/ GetTeamProductivity
    \/ CompareTeams

(***************************************************************************)
(* process_logs called on a batch: each invocation has its own locals      *)
(* (logs, logs_with_gaps, smoothed_logs); the dicts of logs are the        *)
(* caller's.  An invocation runs statement by statement, and invocations   *)
(* of different requests interleave between statements.                    *)
(***************************************************************************)
MaxBatch == 2

\* "2025-01-01T00:00:00" and the text of 305 s later, as the agent sends them
IsoMidnight ==
    <<"2","0","2","5","-","0","1","-","0","1","T","0","0",":","0","0",":","0","0">>
IsoFiveMinutesLater ==
    <<"2","0","2","5","-","0","1","-","0","1","T","0","0",":","0","5",":","0","5">>
NotADate == <<"n","o","t","-","a","-","d","a","t","e">>

\* a snapshot as a client hands it over: the timestamp is a datetime, a text
\* or absent
RawSnapshot(timestamp, is_idle) ==
    [timestamp |-> timestamp, app_name |-> EditorApp, window_title |-> <<>>,
     is_idle |-> is_idle, mouse_count |-> 0, key_count |-> 0]

NoTimestampSnapshot ==
    [app_name |-> EditorApp, window_title |-> <<>>,
     is_idle |-> FALSE, mouse_count |-> 0, key_count |-> 0]

BatchSnapshots ==
    {RawSnapshot(Datetime(0), FALSE), RawSnapshot(Datetime(305), FALSE),
     RawSnapshot(StrTimestamp(IsoMidnight), FALSE),
     RawSnapshot(StrTimestamp(IsoFiveMinutesLater), FALSE),
     RawSnapshot(StrTimestamp(NotADate), FALSE),
     NoTimestampSnapshot}

RECURSIVE ListsOf(_, _)
ListsOf(elements, n) ==
    IF n = 0
    THEN {<<>>}
    ELSE ListsOf(elements, n - 1)
            \cup {Append(l, e) : l \in {s \in ListsOf(elements, n - 1) : Len(s) = n - 1},
                                 e \in elements}

Batches == ListsOf(BatchSnapshots, MaxBatch)

\* the batches of two requests that run at the same time: rows of the database
ConcurrentSnapshots ==
    {Snapshot(0, EditorApp, FALSE), Snapshot(5, BrowserApp, TRUE),
     Snapshot(310, BrowserApp, FALSE)}

ConcurrentBatches == ListsOf(ConcurrentSnapshots, MaxBatch)

\* the frame of an invocation at its first statement; given is the list as
\* the caller built it, logs the same list as the invocation leaves it
Frame(given) ==
    [pc |-> "detect_gaps", given |-> given, logs |-> given,
     logs_with_gaps |-> <<>>, smoothed_logs |-> <<>>, result |-> NotReturned]

CallInit == calls = <<>>

\* a local variable of one invocation is a slot of its own frame
SetGlobal(frames, i, name, value) ==
    [j \in DOMAIN frames |-> [frames[j] EXCEPT ![name] = value]]

SetLocal(frames, i, name, value) ==
    [frames EXCEPT ![i][name] = value]

Goto(frames, i, pc) == [frames EXCEPT ![i].pc = pc]

\* if not logs: return {...}; logs_with_gaps = detect_gaps(logs)
DetectGapsStep(i) ==
    /\ calls[i].pc = "detect_gaps"
    /\ calls' =
          IF calls[i].logs = <<>>
          THEN Goto(SetLocal(calls, i, "result", Returned(EmptyReport)), i, "returned")
          ELSE IF detect_gaps_raises(calls[i].logs)
          THEN Goto(SetLocal(calls, i, "logs",
                             input_after_detect_gaps_raised(calls[i].logs)),
                    i, "raised")
          ELSE Goto(SetLocal(SetLocal(calls, i, "logs_with_gaps",
                                      detect_gaps(calls[i].logs)),
                             i, "logs", input_after_detect_gaps(calls[i].logs)),
                    i, "smooth_idle_status")
    /\ UNCHANGED <<reportVars, titleVars, ruleVars, activityVars, teamVars>>

\* smoothed_logs = smooth_idle_status(logs_with_gaps)
SmoothIdleStatusStep(i) ==
    /\ calls[i].pc = "smooth_idle_status"
    /\ calls' = Goto(SetLocal(calls, i, "smoothed_logs",
                              smooth_idle_status(calls[i].logs_with_gaps)),
                     i, "aggregate")
    /\ UNCHANGED <<reportVars, titleVars, ruleVars, activityVars, teamVars>>

\* Steps 3 to 6 and the return statement
BuildReportStep(i) ==
    /\ calls[i].pc = "aggregate"
    /\ calls' = Goto(SetLocal(calls, i, "result",
                              Returned(ReportOf(calls[i].logs, calls[i].smoothed_logs,
                                                SNAPSHOT_INTERVAL))),
                     i, "returned")
    /\ UNCHANGED <<reportVars, titleVars, ruleVars, activityVars, teamVars>>

NextCalls ==
    \/ \E i \in DOMAIN calls : DetectGapsStep(i)
    \/ \E i \in DOMAIN calls : SmoothIdleStatusStep(i)
    \/ \E i \in DOMAIN calls : BuildReportStep(i)

(***************************************************************************)
(* smooth_idle_status called on a list of snapshots in any order           *)
(***************************************************************************)
MaxSmoothInput == 3

\* a snapshot detect_gaps has flagged
GapFlagged(log, gap) == SetKey(SetKey(log, "after_gap", TRUE), "gap_seconds", gap)

SmoothSnapshots ==
    {Snapshot(t, app_name, is_idle) :
        t \in {0, 5}, app_name \in {EditorApp, BrowserApp}, is_idle \in BOOLEAN}
        \cup {GapFlagged(Snapshot(310, EditorApp, TRUE), 305)}

SmoothInputs == ListsOf(SmoothSnapshots, MaxSmoothInput)

\* smoothed_logs = smooth_idle_status(logs_with_gaps)
CallSmoothIdleStatus ==
    /\ ~responded
    /\ smoothed_logs' = smooth_idle_status(logs_with_gaps)
    /\ responded' = TRUE
    /\ UNCHANGED <<db_logs, sync_count, log_dicts, logs_with_gaps, report, interval,
                   callVars, titleVars, ruleVars, activityVars, teamVars>>

(***************************************************************************)
(* The daily report over snapshots with window titles                      *)
(***************************************************************************)
TenChars == <<"0", "1", "2", "3", "4", "5", "6", "7", "8", "9">>
SixtyChars == TenChars \o TenChars \o TenChars \o TenChars \o TenChars \o TenChars

\* the titles the agent reports: none, a site, a title that ends with the
\* separator and, for the editor, two titles of 61 characters that share
\* their first 60
WindowTitles(app_name) ==
    { <<>>,
      <<"Y","o","u","T","u","b","e">>,
      <<"I","n","b","o","x"," ","-"," ">> }
        \cup (IF app_name = EditorApp
              THEN {SixtyChars \o <<"x">>, SixtyChars \o <<"y">>}
              ELSE {})

\* the number of snapshots of an idle upload: 20 s, over the 15 s override
TitledIdleLengths == {4}

\* sync_desktop_logs: n snapshots of one application under one title
SyncTitledLogs(app_name, window_title, is_idle, n) ==
    /\ sync_count < MaxSyncs
    /\ Len(db_logs) + n <= MaxSnapshots
    /\ sync_count' = sync_count + 1
    /\ db_logs' = db_logs \o
          [k \in 1..n |->
              [Snapshot(LastTimestamp + k * SNAPSHOT_INTERVAL, app_name, is_idle)
                  EXCEPT !.window_title = window_title]]
    /\ log_dicts' = <<>>
    /\ logs_with_gaps' = <<>>
    /\ smoothed_logs' = <<>>
    /\ report' = EmptyReport
    /\ interval' = SNAPSHOT_INTERVAL
    /\ responded' = FALSE
    /\ UNCHANGED <<callVars, titleVars, ruleVars, activityVars, teamVars>>

NextSubActivities ==
    \/ \E app_name \in {ChromeApp, EditorApp} : \E window_title \in WindowTitles(app_name) :
          SyncTitledLogs(app_name, window_title, FALSE, 1)
    \/ \E app_name \in {ChromeApp, EditorApp}, n \in TitledIdleLengths :
          SyncTitledLogs(app_name, <<"Y","o","u","T","u","b","e">>, TRUE, n)
    \/ GetDailyReport(SNAPSHOT_INTERVAL)

(***************************************************************************)
(* suggest_rules (api/teams.py)                                            *)
(***************************************************************************)
PRODUCTIVE_HINTS == <<
    <<"v","i","s","u","a","l"," ","s","t","u","d","i","o">>,
    <<"v","s","c","o","d","e">>,
    <<"c","o","d","e">>,
    <<"p","y","c","h","a","r","m">>,
    <<"i","n","t","e","l","l","i","j">>,
    <<"w","e","b","s","t","o","r","m">>,
    <<"a","n","d","r","o","i","d"," ","s","t","u","d","i","o">>,
    <<"x","c","o","d","e">>,
    <<"e","c","l","i","p","s","e">>,
    <<"s","u","b","l","i","m","e">>,
    <<"v","i","m">>,
    <<"n","e","o","v","i","m">>,
    <<"t","e","r","m","i","n","a","l">>,
    <<"p","o","w","e","r","s","h","e","l","l">>,
    <<"c","m","d">>,
    <<"g","i","t">>,
    <<"g","i","t","h","u","b">>,
    <<"g","i","t","l","a","b">>,
    <<"b","i","t","b","u","c","k","e","t">>,
    <<"j","i","r","a">>,
    <<"c","o","n","f","l","u","e","n","c","e">>,
    <<"n","o","t","i","o","n">>,
    <<"l","i","n","e","a","r">>,
    <<"a","s","a","n","a">>,
    <<"t","r","e","l","l","o">>,
    <<"f","i","g","m","a">>,
    <<"s","k","e","t","c","h">>,
    <<"a","d","o","b","e">>,
    <<"p","h","o","t","o","s","h","o","p">>,
    <<"i","l","l","u","s","t","r","a","t","o","r">>,
    <<"p","o","s","t","m","a","n">>,
    <<"i","n","s","o","m","n","i","a">>,
    <<"d","o","c","k","e","r">>,
    <<"k","u","b","e","r","n","e","t","e","s">>,
    <<"s","l","a","c","k">>,
    <<"t","e","a","m","s">>,
    <<"m","i","c","r","o","s","o","f","t"," ","t","e","a","m","s">>,
    <<"z","o","o","m">>,
    <<"g","o","o","g","l","e"," ","d","o","c","s">>,
    <<"g","o","o","g","l","e"," ","s","h","e","e","t","s">>,
    <<"g","o","o","g","l","e"," ","s","l","i","d","e","s">>,
    <<"e","x","c","e","l">>,
    <<"w","o","r","d">>,
    <<"p","o","w","e","r","p","o","i","n","t">>,
    <<"o","u","t","l","o","o","k">>,
    <<"e","n","c","o","r","d">>,
    <<"l","a","b","e","l","b","o","x">>,
    <<"r","o","b","o","f","l","o","w">> >>

NON_PRODUCTIVE_HINTS == <<
    <<"y","o","u","t","u","b","e">>,
    <<"n","e","t","f","l","i","x">>,
    <<"t","w","i","t","c","h">>,
    <<"t","i","k","t","o","k">>,
    <<"i","n","s","t","a","g","r","a","m">>,
    <<"f","a","c","e","b","o","o","k">>,
    <<"t","w","i","t","t","e","r">>,
    <<"r","e","d","d","i","t">>,
    <<"9","g","a","g">>,
    <<"i","m","g","u","r">>,
    <<"p","i","n","t","e","r","e","s","t">>,
    <<"s","p","o","t","i","f","y">>,
    <<"m","u","s","i","c">>,
    <<"w","h","a","t","s","a","p","p">>,
    <<"t","e","l","e","g","r","a","m">>,
    <<"d","i","s","c","o","r","d">>,
    <<"s","t","e","a","m">>,
    <<"e","p","i","c"," ","g","a","m","e","s">>,
    <<"g","a","m","e">>,
    <<"g","a","m","i","n","g">>,
    <<"a","m","a","z","o","n">>,
    <<"f","l","i","p","k","a","r","t">>,
    <<"s","h","o","p","p","i","n","g">>,
    <<"e","b","a","y">> >>

\* sorted(...)[:20]
TopSuggestions == 20

\* timedelta(days=7)
SuggestionWindowDays == 7

\* the seconds one snapshot adds to app_usage
SuggestionInterval == 5

\* {r.lower() for r in rules_result.scalars().all()}
existing_patterns(rules) == {lower(rules[r].app_pattern) : r \in 1..Len(rules)}

\* the rows of the query of one member: timestamp >= since and not is_idle
RecentActiveAppNames(logs) ==
    LET rows == SelectSeq(logs, LAMBDA log : log.age_days <= SuggestionWindowDays
                                             /\ ~log.is_idle)
    IN  [k \in 1..Len(rows) |-> rows[k].app_name]

\* the rows of the members, member after member
RECURSIVE AppNamesOfMembers(_, _, _)
AppNamesOfMembers(members, logs, m) ==
    IF m > Len(members) THEN <<>>
    ELSE RecentActiveAppNames(logs[members[m]]) \o AppNamesOfMembers(members, logs, m + 1)

\* if app_name: app_usage[app_name] = app_usage.get(app_name, 0) + 5, the
\* dict as its items in insertion order
RECURSIVE CountUsage(_, _, _)
CountUsage(names, k, usage) ==
    IF k > Len(names) THEN usage
    ELSE IF names[k] = <<>> THEN CountUsage(names, k + 1, usage)
    ELSE IF \E u \in 1..Len(usage) : usage[u][1] = names[k]
    THEN CountUsage(names, k + 1,
             [u \in 1..Len(usage) |->
                 IF usage[u][1] = names[k]
                 THEN <<usage[u][1], usage[u][2] + SuggestionInterval>>
                 ELSE usage[u]])
    ELSE CountUsage(names, k + 1, Append(usage, <<names[k], SuggestionInterval>>))

app_usage(members, logs) == CountUsage(AppNamesOfMembers(members, logs, 1), 1, <<>>)

\* any(pat in app_lower for pat in existing_patterns) with an exact
\* comparison in place of `in`
already_covered_by_equal_pattern(app, patterns) ==
    \E pat \in patterns : pat = lower(app)

\* any(pat in app_lower for pat in existing_patterns)
already_covered(app, patterns) ==
    \E pat \in patterns : Contains(pat, lower(app))

\* the items of unclassified, in the order of app_usage
unclassified(usage, patterns) ==
    SelectSeq(usage, LAMBDA item : ~already_covered(item[1], patterns))

\* sorted(..., key=lambda x: x[1], reverse=True): stable, equal usages keep
\* their order
RECURSIVE InsertByUsageDesc(_, _, _)
InsertByUsageDesc(sorted, item, k) ==
    IF k > Len(sorted) THEN Append(sorted, item)
    ELSE IF sorted[k][2] < item[2]
    THEN SubSeq(sorted, 1, k - 1) \o <<item>> \o SubSeq(sorted, k, Len(sorted))
    ELSE InsertByUsageDesc(sorted, item, k + 1)

RECURSIVE SortByUsageDesc(_, _, _)
SortByUsageDesc(items, k, sorted) ==
    IF k > Len(items) THEN sorted
    ELSE SortByUsageDesc(items, k + 1, InsertByUsageDesc(sorted, items[k], 1))

top_unclassified(usage, patterns) ==
    LET sorted == SortByUsageDesc(unclassified(usage, patterns), 1, <<>>)
    IN  SubSeq(sorted, 1, IF Len(sorted) < TopSuggestions THEN Len(sorted)
                          ELSE TopSuggestions)

AnyHint(hints, app_lower) == \E h \in 1..Len(hints) : Contains(hints[h], app_lower)

\* the two loops with the non-productive hints tested first
suggested_category_non_productive_first(app_name) ==
    IF AnyHint(NON_PRODUCTIVE_HINTS, lower(app_name)) THEN "non_productive"
    ELSE IF AnyHint(PRODUCTIVE_HINTS, lower(app_name)) THEN "productive"
    ELSE "neutral"

\* the two loops over the hints: the second runs while suggested is neutral
suggested_category(app_name) ==
    IF AnyHint(PRODUCTIVE_HINTS, lower(app_name)) THEN "productive"
    ELSE IF AnyHint(NON_PRODUCTIVE_HINTS, lower(app_name)) THEN "non_productive"
    ELSE "neutral"

\* confidence is set to high where suggested is set
suggested_confidence(app_name) ==
    IF AnyHint(PRODUCTIVE_HINTS, lower(app_name)) THEN "high"
    ELSE IF AnyHint(NON_PRODUCTIVE_HINTS, lower(app_name)) THEN "high"
    ELSE "low"

\* the f-string: hours and minutes from an hour on, minutes below
usage_display(total_secs) ==
    IF total_secs >= 3600
    THEN <<total_secs \div 3600, "h ", (total_secs % 3600) \div 60, "m">>
    ELSE <<total_secs \div 60, "m">>

Suggestion(item) ==
    [app_pattern |-> item[1],
     suggested_category |-> suggested_category(item[1]),
     confidence |-> suggested_confidence(item[1]),
     total_seconds |-> item[2],
     usage_display |-> usage_display(item[2])]

suggest_rules(members, rules, logs) ==
    IF members = <<>>
    THEN [suggestions |-> <<>>]
    ELSE LET top == top_unclassified(app_usage(members, logs), existing_patterns(rules))
         IN  [suggestions |-> [k \in 1..Len(top) |-> Suggestion(top[k])]]

(***************************************************************************)
(* The suggestion endpoint over a team's members, rules and uploads        *)
(***************************************************************************)
MaxSuggestSyncs == 2

WordGameApp == <<"W","o","r","d"," ","G","a","m","e">>
FinderApp == <<"F","i","n","d","e","r">>
YouTubeApp == <<"Y","o","u","T","u","b","e">>
XcodeApp == <<"X","c","o","d","e">>

\* more applications than the endpoint lists, none with a hint in its name
ManyApps == [k \in 1..(TopSuggestions + 1) |-> <<"a","p","p"," ">> \o <<LowerChars[k]>>]

\* rules whose patterns are stored with capitals
CapitalCodeRule == [app_pattern |-> <<"C","o","d","e">>, category |-> "productive",
                    match_type |-> "exact"]
AppARule == [app_pattern |-> <<"A","p","p"," ","A">>, category |-> "neutral",
             match_type |-> "contains"]
SuggestRuleChoices == {CapitalCodeRule, AppARule}

UploadOf(app_name, is_idle, age_days, n) ==
    [k \in 1..n |-> [app_name |-> app_name, window_title |-> <<>>,
                     is_idle |-> is_idle, age_days |-> age_days]]

\* the batches a user's agent has uploaded: snapshots of today and of eight
\* days ago
SuggestUploads(user_id) ==
    IF user_id = "u1"
    THEN { UploadOf(XcodeApp, FALSE, 0, 1),
           UploadOf(WordGameApp, FALSE, 0, 2),
           UploadOf(YouTubeApp, FALSE, 0, 3),
           UploadOf(YouTubeApp, FALSE, 8, 1),
           UploadOf(SlackApp, TRUE, 0, 1),
           UploadOf(<<>>, FALSE, 0, 1),
           [k \in 1..Len(ManyApps) |-> UploadOf(ManyApps[k], FALSE, 0, 1)[1]] }
    ELSE { UploadOf(FinderApp, FALSE, 0, 4),
           UploadOf(WordGameApp, FALSE, 0, 1) }

\* sync_desktop_logs of one user
SyncSuggestLogs(user_id, batch) ==
    /\ team_syncs < MaxSuggestSyncs
    /\ team_syncs' = team_syncs + 1
    /\ team_logs' = [team_logs EXCEPT ![user_id] = @ \o batch]
    /\ team_response' = NotReturned
    /\ compare_response' = NotReturned
    /\ UNCHANGED <<callVars, team_members, team_rules,
                   reportVars, titleVars, ruleVars, activityVars>>

SuggestRules ==
    /\ team_response = NotReturned
    /\ team_response' = Returned(suggest_rules(team_members, team_rules, team_logs))
    /\ UNCHANGED <<callVars, team_members, team_rules, team_logs, team_syncs,
                   compare_response, reportVars, titleVars, ruleVars, activityVars>>

NextSuggest ==
    \/ \E user_id \in Users : AssignUserToTeam(user_id)
    \/ \E body \in SuggestRuleChoices : AddTeamRule(body)
    \/ \E user_id \in Users : \E batch \in SuggestUploads(user_id) :
          SyncSuggestLogs(user_id, batch)
    \/ SuggestRules

(***************************************************************************)
(* Specifications                                                          *)
(***************************************************************************)
Init == ReportInit /\ TitleInit /\ RuleInit /\ ActivityInit /\ TeamInit /\ CallInit

Spec == Init /\ [][Next]_vars

SpecGaps == Init /\ [][NextGaps]_vars

\* the title of one active snapshot, read once
InitTitles ==
    /\ ReportInit /\ RuleInit /\ ActivityInit /\ TeamInit /\ CallInit
    /\ title_app \in TitleApps
    /\ snapshot_title \in TitlesOf(MaxTitleTokens)
    /\ sub_activity = NoneStr

NextTitles == ExtractSubActivity

SpecTitles == InitTitles /\ [][NextTitles]_vars

SpecRules == Init /\ [][NextRules]_vars

\* the rules API called for the spellings of one domain, a subdomain of it
\* and a domain of the default lists
CallDomains ==
    { <<"e","x","a","m","p","l","e",".","c","o","m">>,
      <<"E","x","a","m","p","l","e",".","C","O","M">>,
      <<"s","u","b",".","e","x","a","m","p","l","e",".","c","o","m">>,
      <<"d","o","c","s",".","g","o","o","g","l","e",".","c","o","m">> }

NextRuleCalls ==
    \/ \E domain \in CallDomains, category \in Categories : AddRule(domain, category)
    \/ \E domain \in CallDomains : DeleteRule(domain)
    \/ \E domain \in CallDomains : CategorizeSingleDomain(domain)

SpecRuleCalls == Init /\ [][NextRuleCalls]_vars

SpecSuggest == Init /\ [][NextSuggest]_vars

\* one call of classify_activity
InitClassify ==
    /\ ReportInit /\ TitleInit /\ RuleInit /\ TeamInit /\ CallInit
    /\ activity \in [app_name : {a[1] : a \in Activities},
                     window_title : {a[2] : a \in Activities},
                     rules : RuleLists]
    /\ <<activity.app_name, activity.window_title>> \in Activities
    /\ activity_category = NotReturned

NextClassify == ClassifyActivity

SpecClassify == InitClassify /\ [][NextClassify]_vars

SpecTeam == Init /\ [][NextTeam]_vars

\* one invocation of process_logs on a batch a client hands over
InitBatch ==
    /\ ReportInit /\ TitleInit /\ RuleInit /\ ActivityInit /\ TeamInit
    /\ \E given \in Batches : calls = <<Frame(given)>>

SpecBatch == InitBatch /\ [][NextCalls]_vars

\* two invocations on the batches of two requests
InitConcurrent ==
    /\ ReportInit /\ TitleInit /\ RuleInit /\ ActivityInit /\ TeamInit
    /\ \E first \in ConcurrentBatches, second \in ConcurrentBatches :
          calls = <<Frame(first), Frame(second)>>

SpecConcurrent == InitConcurrent /\ [][NextCalls]_vars

\* one call of smooth_idle_status
InitSmooth ==
    /\ db_logs = <<>>
    /\ sync_count = 0
    /\ log_dicts = <<>>
    /\ logs_with_gaps \in SmoothInputs
    /\ smoothed_logs = <<>>
    /\ report = EmptyReport
    /\ interval = SNAPSHOT_INTERVAL
    /\ responded = FALSE
    /\ TitleInit /\ RuleInit /\ ActivityInit /\ TeamInit /\ CallInit

NextSmooth == CallSmoothIdleStatus

SpecSmooth == InitSmooth /\ [][NextSmooth]_vars

SpecSubActivities == Init /\ [][NextSubActivities]_vars

(***************************************************************************)
(* Properties of the report pipeline                                       *)
(***************************************************************************)
\* Place k of smoothed_logs holds the snapshot of place k of logs_with_gaps:
\* smooth_idle_status sorts a list that detect_gaps left sorted.
IdleBefore(k) == is_idle_of(logs_with_gaps[k])

\* a..b is a maximal run of idle snapshots of the smoother's input
MaximalIdleStreak(a, b) ==
    /\ a <= b
    /\ \A k \in a..b : IdleBefore(k)
    /\ a = 1 \/ ~IdleBefore(a - 1)
    /\ b = Len(logs_with_gaps) \/ ~IdleBefore(b + 1)

IdleStreaks ==
    {ab \in (1..Len(logs_with_gaps)) \X (1..Len(logs_with_gaps)) :
        MaximalIdleStreak(ab[1], ab[2])}

StreakSeconds(ab) == (ab[2] - ab[1] + 1) * SNAPSHOT_INTERVAL

\* the snapshots right before and right after the streak exist and name the same application
SameAppOnBothSides(ab) ==
    /\ ab[1] > 1
    /\ ab[2] < Len(logs_with_gaps)
    /\ logs_with_gaps[ab[1] - 1]["app_name"] = logs_with_gaps[ab[2] + 1]["app_name"]

DifferentAppsOnBothSides(ab) ==
    /\ ab[1] > 1
    /\ ab[2] < Len(logs_with_gaps)
    /\ logs_with_gaps[ab[1] - 1]["app_name"] # logs_with_gaps[ab[2] + 1]["app_name"]

AllReclassified(ab) ==
    \A k \in ab[1]..ab[2] :
        /\ smoothed_logs[k]["is_idle"] = FALSE
        /\ Get(smoothed_logs[k], "smoothed", FALSE) = TRUE

AllStillIdle(ab) ==
    \A k \in ab[1]..ab[2] :
        /\ smoothed_logs[k]["is_idle"] = TRUE
        /\ "smoothed" \notin DOMAIN smoothed_logs[k]

\* the is_idle and smoothed flags of a smoothed list, place by place
Flags(logs) ==
    [k \in 1..Len(logs) |-> <<is_idle_of(logs[k]), Get(logs[k], "smoothed", FALSE)>>]

\* C1: for a non-empty batch and any interval_seconds, the report's
\* total_active_seconds + total_idle_seconds equals raw_active_seconds +
\* raw_idle_seconds and equals len(snapshots) * interval_seconds.
C1_IntervalsConserved ==
    (responded /\ db_logs # <<>>) =>
        /\ report.total_active_seconds + report.total_idle_seconds
              = Len(db_logs) * interval
        /\ report.raw_active_seconds + report.raw_idle_seconds
              = Len(db_logs) * interval

\* a report over a batch in which smoothing recovered some snapshots and left
\* others idle, computed with an interval other than the default
C1_Witness ==
    /\ responded
    /\ interval # SNAPSHOT_INTERVAL
    /\ report.smoothed_recovered_seconds > 0
    /\ report.total_idle_seconds > 0
    /\ report.total_active_seconds > report.smoothed_recovered_seconds

\* C2: smoothing is idempotent: smoothing the smoothed list again leaves the
\* is_idle and smoothed flags of every snapshot as they are.
C2_SmoothingIdempotent ==
    responded => Flags(smooth_idle_status(smoothed_logs)) = Flags(smoothed_logs)

\* a smoothed list that holds reclassified snapshots and snapshots left idle
C2_Witness ==
    /\ responded
    /\ \E ab \in IdleStreaks : AllReclassified(ab)
    /\ \E ab \in IdleStreaks : AllStillIdle(ab)

\* C3: every maximal idle streak of at most IDLE_SMOOTHING_WINDOW seconds whose
\* neighbours on both sides exist and have equal app_name is reclassified as
\* active with smoothed = true.
C3_SameAppStreakSmoothed ==
    responded =>
        \A ab \in IdleStreaks :
            (StreakSeconds(ab) <= IDLE_SMOOTHING_WINDOW /\ SameAppOnBothSides(ab))
                => AllReclassified(ab)

C5_LongOrUnboundedStreakStaysIdle ==
    responded =>
        \A ab \in IdleStreaks :
            (\/ StreakSeconds(ab) > IDLE_SMOOTHING_WINDOW
             \/ StreakSeconds(ab) > 15 /\ ~SameAppOnBothSides(ab))
                => AllStillIdle(ab)

\* a streak of more than 15 s and at most 60 s between two different
\* applications, left idle
C5_Witness ==
    /\ responded
    /\ \E ab \in IdleStreaks :
          /\ StreakSeconds(ab) > 15
          /\ StreakSeconds(ab) <= IDLE_SMOOTHING_WINDOW
          /\ DifferentAppsOnBothSides(ab)
          /\ logs_with_gaps[ab[1] - 1]["app_name"] = EditorApp
          /\ logs_with_gaps[ab[2] + 1]["app_name"] = BrowserApp
          /\ AllStillIdle(ab)

\* the seconds between snapshot k of the sorted batch and the one before it
ElapsedBefore(k) ==
    logs_with_gaps[k]["timestamp"].seconds - logs_with_gaps[k - 1]["timestamp"].seconds

\* C6: detect_gaps sets after_gap = true and gap_seconds = elapsed on a snapshot
\* exactly when more than GAP_THRESHOLD seconds passed since the snapshot right
\* before it; the first snapshot and the earlier one of a pair are never
\* flagged for that pair, and a batch of fewer than two snapshots has no flag.
C6_GapFlaggedIffOverThreshold ==
    responded =>
        /\ Len(logs_with_gaps) = Len(db_logs)
        /\ \A k \in 1..Len(logs_with_gaps) :
              /\ Get(logs_with_gaps[k], "after_gap", FALSE)
                    <=> (k > 1 /\ ElapsedBefore(k) > GAP_THRESHOLD)
              /\ Get(logs_with_gaps[k], "after_gap", FALSE)
                    => logs_with_gaps[k]["gap_seconds"] = ElapsedBefore(k)
              /\ ~Get(logs_with_gaps[k], "after_gap", FALSE)
                    => /\ "after_gap" \notin DOMAIN logs_with_gaps[k]
                       /\ "gap_seconds" \notin DOMAIN logs_with_gaps[k]
        /\ Len(logs_with_gaps) < 2 =>
              \A k \in 1..Len(logs_with_gaps) : "after_gap" \notin DOMAIN logs_with_gaps[k]

\* a batch with a flagged snapshot after unflagged ones, and a pair exactly
\* GAP_THRESHOLD seconds apart that is not flagged
C6_Witness ==
    /\ responded
    /\ \E k \in 2..Len(logs_with_gaps) :
          /\ ElapsedBefore(k) = GAP_THRESHOLD + 100
          /\ logs_with_gaps[k]["after_gap"] = TRUE
          /\ logs_with_gaps[k]["gap_seconds"] = GAP_THRESHOLD + 100
          /\ "after_gap" \notin DOMAIN logs_with_gaps[k - 1]
    /\ \E k \in 2..Len(logs_with_gaps) :
          /\ ElapsedBefore(k) = GAP_THRESHOLD
          /\ "after_gap" \notin DOMAIN logs_with_gaps[k]

(***************************************************************************)
(* Properties of the categorizers and of the team score                    *)
(***************************************************************************)
ConsoleAws ==
    <<"c","o","n","s","o","l","e",".","a","w","s",".","a","m","a","z","o","n",".","c","o","m">>

\* the default lists' entries that cover a lowercased domain
Covering(domain_lower, listed_domains) ==
    {listed \in listed_domains :
        \/ domain_lower = listed
        \/ /\ Len(domain_lower) > Len(listed)
           /\ domain_lower[Len(domain_lower) - Len(listed)] = "."
           /\ SubSeq(domain_lower, Len(domain_lower) - Len(listed) + 1,
                     Len(domain_lower)) = listed}

\* C7: categorize_domain follows the priority chain.  A custom rule stored
\* under the lowercased domain gives (its category, custom); otherwise a
\* domain covered by the productive list is (productive, default), also
\* when the distraction list covers it too, as for console.aws.amazon.com;
\* otherwise a domain covered by the distraction list is (distraction,
\* default); otherwise (neutral, default).
C7_PriorityChain ==
    rule_response.op = "categorize" =>
        LET result == rule_response.result
            key == lower(result.domain)
        IN  /\ key \in DOMAIN custom_rules =>
                   result.category = custom_rules[key] /\ result.source = "custom"
            /\ key \notin DOMAIN custom_rules =>
                   /\ result.source = "default"
                   /\ Covering(key, PRODUCTIVE_DOMAINS) # {} =>
                          result.category = "productive"
                   /\ (Covering(key, PRODUCTIVE_DOMAINS) = {}
                          /\ Covering(key, DISTRACTION_DOMAINS) # {}) =>
                          result.category = "distraction"
                   /\ (Covering(key, PRODUCTIVE_DOMAINS) = {}
                          /\ Covering(key, DISTRACTION_DOMAINS) = {}) =>
                          result.category = "neutral"

\* console.aws.amazon.com, covered by both lists, was categorized while a
\* custom rule for another domain was stored
C7_Witness ==
    /\ rule_response.op = "categorize"
    /\ rule_response.result.domain = ConsoleAws
    /\ Covering(ConsoleAws, PRODUCTIVE_DOMAINS) # {}
    /\ Covering(ConsoleAws, DISTRACTION_DOMAINS) # {}
    /\ custom_rules # <<>>
    /\ ConsoleAws \notin DOMAIN custom_rules
    /\ rule_response.result.category = "productive"

\* the subjects of a returned team report: every member and the team,
\* each with its productive, neutral and non-productive seconds and its score
Subjects ==
    IF team_response.returned /\ team_response.value.status = 200
    THEN {[productive |-> r.productive_seconds, neutral |-> r.neutral_seconds,
           non_productive |-> r.non_productive_seconds, score |-> r.productivity_score] :
             r \in {team_response.value.members[m] :
                       m \in 1..Len(team_response.value.members)}}
         \cup {[productive |-> team_response.value.summary.total_productive_seconds,
                neutral |-> team_response.value.summary.total_neutral_seconds,
                non_productive |-> team_response.value.summary.total_non_productive_seconds,
                score |-> team_response.value.summary.team_productivity_score]}
    ELSE {}

Abs(x) == IF x < 0 THEN -x ELSE x

\* s is round(num / den): the nearest integer, and the even one of the two
\* nearest when num / den lies halfway between them
IsRounded(s, num, den) ==
    /\ 2 * Abs(num - s * den) <= den
    /\ 2 * Abs(num - s * den) = den => s % 2 = 0

\* C8: the score of every subject of a team report is
\* round(productive / (productive + non_productive) * 100) when that
\* denominator is positive and 0 otherwise: an integer in 0..100 that the
\* neutral seconds do not change, 0 for an all-neutral or empty subject,
\* 100 for a subject whose active snapshots are all productive; and the
\* report is returned without error when every rule category is one of the
\* three.
C8_ScoreFormula ==
    /\ \A s \in Subjects :
          /\ s.score \in 0..100
          /\ s.productive + s.non_productive > 0 =>
                 IsRounded(s.score, 100 * s.productive, s.productive + s.non_productive)
          /\ s.productive + s.non_productive = 0 => s.score = 0
          /\ (s.productive > 0 /\ s.neutral = 0 /\ s.non_productive = 0) => s.score = 100
    /\ \A s, t \in Subjects :
          (s.productive = t.productive /\ s.non_productive = t.non_productive) =>
              s.score = t.score
    /\ (team_response.returned
           /\ \A r \in 1..Len(team_rules) :
                 team_rules[r].category \in {"productive", "neutral", "non_productive"}) =>
          team_response.value.status = 200

\* a report with a member at 5 / 40 = 12.5 percent, scored 12, and a member
\* with neutral seconds only, scored 0
C8_Witness ==
    /\ \E s \in Subjects :
          s.productive = 5 /\ s.non_productive = 35 /\ s.neutral > 0 /\ s.score = 12
    /\ \E s \in Subjects :
          s.productive = 0 /\ s.non_productive = 0 /\ s.neutral > 0 /\ s.score = 0

\* whether a rule matches an activity, as the three match types are defined
MatchesAsDocumented(rule, app_name, title) ==
    LET pattern == lower(rule.app_pattern)
        app == lower(app_name)
        window == lower(title)
    IN  CASE rule.match_type = "exact" -> pattern = app \/ pattern = window
          [] rule.match_type = "startswith" ->
                 \/ Len(pattern) <= Len(app) /\ SubSeq(app, 1, Len(pattern)) = pattern
                 \/ Len(pattern) <= Len(window) /\ SubSeq(window, 1, Len(pattern)) = pattern
          [] OTHER ->
                 \E k \in 0..(Len(app) + 1 + Len(window) - Len(pattern)) :
                     SubSeq(app \o <<" ">> \o window, k + 1, k + Len(pattern)) = pattern

FunnyCatVideoYouTube ==
    <<"F","u","n","n","y"," ","C","a","t"," ","V","i","d","e","o",
      " ","-"," ","Y","o","u","T","u","b","e">>
GoogleComSearch ==
    <<"g","o","o","g","l","e",".","c","o","m"," ","-"," ","S","e","a","r","c","h">>

\* C10: for a browser application, the title "Funny Cat Video - YouTube"
\* gives the sub-activity "YouTube" and the title "google.com - Search"
\* gives the sub-activity "google.com".
C10_BrowserTitleExamples ==
    (sub_activity.some /\ title_app \in {ChromeApp, GoogleChromeApp}) =>
        /\ snapshot_title = FunnyCatVideoYouTube =>
               sub_activity.val = <<"Y","o","u","T","u","b","e">>
        /\ snapshot_title = GoogleComSearch =>
               sub_activity.val = <<"g","o","o","g","l","e",".","c","o","m">>

\* the sub-activity of "google.com - Search" under the application "chrome"
C10_Witness ==
    /\ sub_activity.some
    /\ title_app = ChromeApp
    /\ snapshot_title = GoogleComSearch
    /\ sub_activity.val = <<"g","o","o","g","l","e",".","c","o","m">>

(***************************************************************************)
(* Properties of the focus streaks, of the empty report and of the rules   *)
(***************************************************************************)
\* places a..b of the smoothed list are all active and all name app
ActiveRunOf(app, a, b) ==
    /\ a <= b
    /\ \A k \in a..b : ~is_idle_of(smoothed_logs[k]) /\ smoothed_logs[k]["app_name"] = app

\* the length of the longest run of active snapshots of app, 0 without one
LongestActiveRun(app) ==
    LET lengths == {b - a + 1 : <<a, b>> \in
                       {ab \in (1..Len(smoothed_logs)) \X (1..Len(smoothed_logs)) :
                           ActiveRunOf(app, ab[1], ab[2])}}
    IN  IF lengths = {} THEN 0 ELSE CHOOSE n \in lengths : \A m \in lengths : m <= n

\* C11: the focus streak reported for every application of the batch is the
\* snapshot interval times the length of its longest run of consecutive
\* active snapshots in the smoothed list, and 0 for an application without
\* an active snapshot.
C11_FocusStreakIsLongestRun ==
    responded =>
        \A k \in 1..Len(report.apps) :
            report.apps[k].longest_focus_streak_seconds =
                LongestActiveRun(report.apps[k].name) * SNAPSHOT_INTERVAL

\* the same for the applications whose name is not empty
C11_NamedAppsFocusStreak ==
    responded =>
        \A k \in 1..Len(report.apps) :
            report.apps[k].name # <<>> =>
                report.apps[k].longest_focus_streak_seconds =
                    LongestActiveRun(report.apps[k].name) * SNAPSHOT_INTERVAL

\* C12: on an empty batch process_logs returns a report whose total_hours,
\* total_active_seconds, total_idle_seconds, raw_active_seconds,
\* raw_idle_seconds, smoothed_recovered_seconds and gap_seconds are 0 and
\* whose apps list is empty.
C12_EmptyBatchZeroReport ==
    (responded /\ db_logs = <<>>) =>
        /\ report.total_hours = 0
        /\ report.total_active_seconds = 0
        /\ report.total_idle_seconds = 0
        /\ report.raw_active_seconds = 0
        /\ report.raw_idle_seconds = 0
        /\ report.smoothed_recovered_seconds = 0
        /\ report.gap_seconds = 0
        /\ report.apps = <<>>

\* a report was asked for before any snapshot was stored
C12_Witness ==
    /\ responded
    /\ db_logs = <<>>
    /\ log_dicts = <<>>
    /\ report.apps = <<>>

\* what one call of the rules API did to the categorization of every domain
RuleCallEffect ==
    LET call == rule_response'
        same(e) == lower(e) = lower(call.domain)
    IN  /\ call.op = "add" =>
               \A e \in CallDomains :
                   IF same(e)
                   THEN categorize_domain(custom_rules', e) =
                            [domain |-> e, category |-> call.category, source |-> "custom"]
                   ELSE categorize_domain(custom_rules', e) =
                            categorize_domain(custom_rules, e)
        /\ call.op = "delete" =>
               /\ call.success = (categorize_domain(custom_rules, call.domain).source = "custom")
               /\ \A e \in CallDomains :
                      IF same(e)
                      THEN /\ categorize_domain(custom_rules', e).source = "default"
                           /\ categorize_domain(custom_rules', e) = categorize_domain(<<>>, e)
                      ELSE categorize_domain(custom_rules', e) =
                               categorize_domain(custom_rules, e)
        /\ call.op = "categorize" =>
               /\ custom_rules' = custom_rules
               /\ call.result = categorize_domain(custom_rules, call.result.domain)

\* C13: every add makes the domain, in any spelling of its lowercase form,
\* categorized as custom with the category given, until a later add or remove
\* for that lowercase form; every remove returns true exactly when a custom
\* rule existed and puts the domain back under the defaults; and neither
\* changes the categorization of a domain with another lowercase form.  So
\* after any sequence of calls a domain is custom with category c exactly
\* when the last add for it carried c and no remove followed.
C13_LastCallDecides == [][RuleCallEffect]_vars

\* a rule was removed while the rule of another domain stays
C13_Witness ==
    /\ rule_response.op = "delete"
    /\ rule_response.success
    /\ custom_rules # <<>>
    /\ categorize_domain(custom_rules, rule_response.domain).source = "default"

(***************************************************************************)
(* Properties of process_logs as a call: errors, the caller's list,        *)
(* concurrent invocations                                                  *)
(***************************************************************************)
\* the timestamp of place k is a text fromisoformat rejects, or its sort key
\* is of another type than the sort key of another snapshot of the batch
MalformedTimestamp(logs, k) ==
    \/ ParseRaisesValueError(logs[k])
    \/ \E j \in 1..Len(logs) : SortKey(logs[j]).type # SortKey(logs[k]).type

\* C14: an invocation on a non-empty batch in which some snapshot carries a
\* malformed timestamp (unparseable, or not comparable with the others) raises
\* before idle smoothing starts: it never reaches smooth_idle_status and never
\* returns a report.
C14_MalformedBatchRejected ==
    \A i \in DOMAIN calls :
        (/\ calls[i].given # <<>>
         /\ \E k \in 1..Len(calls[i].given) : MalformedTimestamp(calls[i].given, k))
            => calls[i].pc \in {"detect_gaps", "raised"}

\* C15: process_logs works only on its own copies: once an invocation has
\* returned, the caller's list has the order it had and every snapshot of it
\* has exactly the keys and values it had before the call.
C15_CallerListUntouched ==
    \A i \in DOMAIN calls :
        calls[i].pc = "returned" => calls[i].logs = calls[i].given

\* What holds of the caller's list: it keeps its length and its order, and
\* every snapshot keeps the keys and values it came with; detect_gaps only
\* adds after_gap and gap_seconds.
C15_CallerListKeepsOrderAndGivenKeys ==
    \A i \in DOMAIN calls :
        /\ Len(calls[i].logs) = Len(calls[i].given)
        /\ \A k \in 1..Len(calls[i].given) :
              /\ DOMAIN calls[i].given[k] \subseteq DOMAIN calls[i].logs[k]
              /\ \A key \in DOMAIN calls[i].given[k] :
                    calls[i].logs[k][key] = calls[i].given[k][key]
              /\ DOMAIN calls[i].logs[k] \ DOMAIN calls[i].given[k]
                    \subseteq {"after_gap", "gap_seconds"}

\* C16: whatever the interleaving of the statements of two invocations of
\* process_logs on the batches of two requests, an invocation that has
\* returned has returned exactly the report process_logs gives for its own
\* batch when it runs alone.
C16_ReportAsWhenRunAlone ==
    \A i \in DOMAIN calls :
        calls[i].pc = "returned"
            => calls[i].result = Returned(process_logs(calls[i].given, SNAPSHOT_INTERVAL))

\* the first invocation ran to its return while the second, on a batch with
\* another report, was between detect_gaps and smooth_idle_status
C16_Witness ==
    /\ Len(calls) = 2
    /\ calls[1].pc = "returned"
    /\ calls[2].pc = "smooth_idle_status"
    /\ calls[1].given # <<>>
    /\ process_logs(calls[1].given, SNAPSHOT_INTERVAL)
          # process_logs(calls[2].given, SNAPSHOT_INTERVAL)
    /\ calls[1].result = Returned(process_logs(calls[1].given, SNAPSHOT_INTERVAL))

(***************************************************************************)
(* Properties of the order of the apps list                                *)
(***************************************************************************)
\* the number of snapshots of the day attributed to an application
SnapshotsOf(app_name) ==
    Cardinality({k \in 1..Len(db_logs) : db_logs[k].app_name = app_name})

\* C17: the apps list of a report is ordered by snapshot count descending: an
\* application with more snapshots in the batch, idle or active, never comes
\* after an application with fewer.
C17_AppsOrderedBySnapshotCount ==
    responded =>
        \A p, q \in 1..Len(report.apps) :
            p < q => SnapshotsOf(report.apps[p].name) >= SnapshotsOf(report.apps[q].name)

\* What the order is: by active seconds after smoothing, descending.
C17_AppsOrderedByActiveSeconds ==
    responded =>
        \A p, q \in 1..Len(report.apps) :
            p < q => report.apps[p].active_seconds >= report.apps[q].active_seconds

(***************************************************************************)
(* Properties of the team summary                                          *)
(***************************************************************************)
\* the sum of a field over the members of a returned team report
MemberTotal(field) ==
    LET reports == team_response.value.members
        upto[n \in 0..Len(reports)] ==
            IF n = 0 THEN 0 ELSE upto[n - 1] + reports[n][field]
    IN  upto[Len(reports)]

\* C18: in a team report every team total is the sum of the members' seconds
\* over all the members of the team, and the team score is the score formula
\* applied to the summed totals; a team without members reports 0 for every
\* total and for the score.
C18_TeamTotalsAreMemberSums ==
    (team_response.returned /\ team_response.value.status = 200) =>
        LET summary == team_response.value.summary
            members == team_response.value.members
        IN  /\ Len(members) = Len(team_members)
            /\ \A m \in 1..Len(members) : members[m].user_id = team_members[m]
            /\ summary.member_count = Len(team_members)
            /\ summary.total_productive_seconds = MemberTotal("productive_seconds")
            /\ summary.total_neutral_seconds = MemberTotal("neutral_seconds")
            /\ summary.total_non_productive_seconds = MemberTotal("non_productive_seconds")
            /\ LET denom == MemberTotal("productive_seconds")
                               + MemberTotal("non_productive_seconds")
               IN  IF denom > 0
                   THEN IsRounded(summary.team_productivity_score,
                                  100 * MemberTotal("productive_seconds"), denom)
                   ELSE summary.team_productivity_score = 0
            /\ team_members = <<>> =>
                  /\ summary.total_productive_seconds = 0
                  /\ summary.total_neutral_seconds = 0
                  /\ summary.total_non_productive_seconds = 0
                  /\ summary.team_productivity_score = 0

\* a report of two members scored 12 and 100 whose team score is 22, the
\* score of 10 productive seconds out of 45, and not the mean 56
C18_Witness ==
    /\ team_response.returned
    /\ team_response.value.status = 200
    /\ Len(team_response.value.members) = 2
    /\ \E m \in 1..2 : team_response.value.members[m].productivity_score = 12
    /\ \E m \in 1..2 : team_response.value.members[m].productivity_score = 100
    /\ team_response.value.summary.total_productive_seconds = 10
    /\ team_response.value.summary.total_non_productive_seconds = 35
    /\ team_response.value.summary.team_productivity_score = 22

\* a team without members asked for its report
C18_WitnessNoMembers ==
    /\ team_response.returned
    /\ team_members = <<>>
    /\ team_response.value.summary.member_count = 0

(***************************************************************************)
(* Properties of the two team endpoints                                    *)
(***************************************************************************)
\* C19: for the same team, rule list and stored snapshots, get_team_productivity
\* succeeds whenever compare_teams does, and the entry of compare_teams has
\* the productive, neutral and non-productive seconds and the score of the
\* summary of get_team_productivity, whatever the categories of the rules.
C19_EndpointsAgree ==
    (team_response.returned /\ compare_response.returned) =>
        /\ team_response.value.status = compare_response.value.status
        /\ LET summary == team_response.value.summary
               entry == compare_response.value.teams[1]
           IN  /\ entry.productive_seconds = summary.total_productive_seconds
               /\ entry.neutral_seconds = summary.total_neutral_seconds
               /\ entry.non_productive_seconds = summary.total_non_productive_seconds
               /\ entry.productivity_score = summary.team_productivity_score

\* What holds: the two agree whenever get_team_productivity returns a report.
C19_EndpointsAgreeOnReports ==
    (team_response.returned /\ compare_response.returned
        /\ team_response.value.status = 200) =>
        LET summary == team_response.value.summary
            entry == compare_response.value.teams[1]
        IN  /\ entry.productive_seconds = summary.total_productive_seconds
            /\ entry.neutral_seconds = summary.total_neutral_seconds
            /\ entry.non_productive_seconds = summary.total_non_productive_seconds
            /\ entry.productivity_score = summary.team_productivity_score
            /\ entry.member_count = summary.member_count

(***************************************************************************)
(* Properties of the order of extraction from a browser title              *)
(***************************************************************************)
\* the lengths of the tails that follow an occurrence of sep in the title
TailLengths(title, sep) ==
    {n \in 0..(Len(title) - Len(sep)) :
        \A k \in 1..Len(sep) : title[Len(title) - n - Len(sep) + k] = sep[k]}

\* the segment after the last sep: the shortest tail, without the spaces
\* around it
SegmentAfterLast(title, sep) ==
    LET n == CHOOSE a \in TailLengths(title, sep) :
                 \A b \in TailLengths(title, sep) : a <= b
        inner == {k \in (Len(title) - n + 1)..Len(title) : title[k] # " "}
    IN  IF inner = {}
        THEN <<>>
        ELSE SubSeq(title, CHOOSE a \in inner : \A b \in inner : a <= b,
                           CHOOSE a \in inner : \A b \in inner : a >= b)

\* the segment contains the name of a known browser, whatever the case
ContainsBrowserName(segment) ==
    \E b \in 1..Len(BROWSERS) : \E i \in 1..Len(segment) :
        /\ i + Len(BROWSERS[b]) - 1 <= Len(segment)
        /\ \A k \in 1..Len(BROWSERS[b]) : LowerChar(segment[i + k - 1]) = BROWSERS[b][k]

\* word characters, a dot, one of com / org / io / net / co / app / dev
DomainLike(s) ==
    \E d \in 2..Len(s) :
        /\ s[d] = "."
        /\ \A k \in 1..(d - 1) : IsWordChar(s[k])
        /\ \E t \in 1..Len(TLDS) : lower(SubSeq(s, d + 1, Len(s))) = TLDS[t]

\* the domain-like tokens that start at place i of the title
TokensAt(title, i) ==
    {SubSeq(title, i, j) : j \in {e \in i..Len(title) : DomainLike(SubSeq(title, i, e))}}

\* token is the first domain-like token of the title: none starts before it,
\* and of those that start where it starts none with an alternative listed
\* before its own (com before co) matches, which makes it the longest
IsFirstDomainToken(title, token) ==
    \E i \in 1..Len(title) :
        /\ token \in TokensAt(title, i)
        /\ \A m \in 1..(i - 1) : TokensAt(title, m) = {}
        /\ \A other \in TokensAt(title, i) : Len(other) <= Len(token)

HasDomainToken(title) == \E i \in 1..Len(title) : TokensAt(title, i) # {}

DashApplies(title) ==
    TailLengths(title, DASH) # {} /\ ~ContainsBrowserName(SegmentAfterLast(title, DASH))

PipeApplies(title) ==
    TailLengths(title, PIPE) # {} /\ ~ContainsBrowserName(SegmentAfterLast(title, PIPE))

C20_WitnessPipe ==
    /\ sub_activity.some
    /\ title_app = ChromeApp
    /\ ~DashApplies(snapshot_title)
    /\ PipeApplies(snapshot_title)
    /\ sub_activity.val = SegmentAfterLast(snapshot_title, PIPE)
    /\ sub_activity.val # <<>>

\* a title of more than 30 characters without a usable segment or token
C20_WitnessTruncated ==
    /\ sub_activity.some
    /\ title_app = ChromeApp
    /\ Len(snapshot_title) > 30
    /\ Len(sub_activity.val) = 30

(***************************************************************************)
(* Properties of smooth_idle_status as a function of its input             *)
(***************************************************************************)
Bijections(n) ==
    {p \in [1..n -> 1..n] : \A a, b \in 1..n : p[a] = p[b] => a = b}

\* C21: smooth_idle_status returns the snapshots of its input, one output
\* for each, in ascending timestamp order with snapshots of one timestamp in
\* the order of the input; no active snapshot comes back idle, and every
\* field a snapshot came with, is_idle apart, comes back with its value.
C21_SmoothingKeepsSnapshots ==
    responded =>
        /\ Len(smoothed_logs) = Len(logs_with_gaps)
        /\ \E from \in Bijections(Len(logs_with_gaps)) :
              /\ \A k, l \in 1..Len(smoothed_logs) :
                    k < l =>
                        /\ smoothed_logs[k].timestamp.seconds
                              <= smoothed_logs[l].timestamp.seconds
                        /\ smoothed_logs[k].timestamp.seconds
                              = smoothed_logs[l].timestamp.seconds => from[k] < from[l]
              /\ \A k \in 1..Len(smoothed_logs) :
                    LET before == logs_with_gaps[from[k]]
                        after == smoothed_logs[k]
                    IN  /\ DOMAIN before \subseteq DOMAIN after
                        /\ \A key \in DOMAIN before \ {"is_idle"} :
                              after[key] = before[key]
                        /\ ~before.is_idle => ~after.is_idle
                        /\ DOMAIN after \ DOMAIN before
                              \subseteq {"original_is_idle", "smoothed"}

\* an input out of timestamp order, with two snapshots of one timestamp and a
\* snapshot flagged after_gap, of which an idle snapshot came back active
C21_Witness ==
    /\ responded
    /\ \E k, l \in 1..Len(logs_with_gaps) :
          k < l /\ logs_with_gaps[k].timestamp.seconds > logs_with_gaps[l].timestamp.seconds
    /\ \E k, l \in 1..Len(logs_with_gaps) :
          /\ k # l
          /\ logs_with_gaps[k].timestamp = logs_with_gaps[l].timestamp
          /\ logs_with_gaps[k] # logs_with_gaps[l]
    /\ \E k \in 1..Len(smoothed_logs) :
          /\ "after_gap" \in DOMAIN smoothed_logs[k]
          /\ smoothed_logs[k].original_is_idle
          /\ ~smoothed_logs[k].is_idle

(***************************************************************************)
(* Properties of the interval the smoothing decision uses                  *)
(***************************************************************************)
\* the duration of a streak at the interval the batch is aggregated with
StreakSecondsAtInterval(ab) == (ab[2] - ab[1] + 1) * interval

\* C22: the duration of an idle streak that is compared with
\* IDLE_SMOOTHING_WINDOW and with the 15 s override is its length times the
\* interval_seconds passed to process_logs: a streak that is, at that
\* interval, longer than the window, or longer than 15 s and not between two
\* snapshots of one application, stays idle.
C22_DecisionUsesPassedInterval ==
    responded =>
        \A ab \in IdleStreaks :
            (\/ StreakSecondsAtInterval(ab) > IDLE_SMOOTHING_WINDOW
             \/ StreakSecondsAtInterval(ab) > 15 /\ ~SameAppOnBothSides(ab))
                => AllStillIdle(ab)

\* What holds: whatever interval_seconds is passed, the decision is the one
\* for snapshots of SNAPSHOT_INTERVAL seconds.
C22_DecisionUsesSnapshotInterval ==
    responded =>
        \A ab \in IdleStreaks :
            /\ (\/ StreakSeconds(ab) > IDLE_SMOOTHING_WINDOW
                \/ StreakSeconds(ab) > 15 /\ ~SameAppOnBothSides(ab))
                   => AllStillIdle(ab)
            /\ StreakSeconds(ab) <= 15 => AllReclassified(ab)

(***************************************************************************)
(* Properties of the gap time in the report                                *)
(***************************************************************************)
\* the elapsed times over GAP_THRESHOLD between adjacent rows of the day,
\* summed over the first n rows
RECURSIVE ElapsedOverThreshold(_)
ElapsedOverThreshold(n) ==
    IF n < 2
    THEN 0
    ELSE LET elapsed == db_logs[n].timestamp.seconds - db_logs[n - 1].timestamp.seconds
         IN  ElapsedOverThreshold(n - 1) + (IF elapsed > GAP_THRESHOLD THEN elapsed ELSE 0)

\* the rows of the day retimed one SNAPSHOT_INTERVAL apart: the same
\* snapshots without gaps
WithoutGaps ==
    [k \in 1..Len(db_logs) |->
        [db_logs[k] EXCEPT !.timestamp = Datetime(k * SNAPSHOT_INTERVAL)]]

\* the active and idle totals of a report
ActiveAndIdle(r) == <<r.total_active_seconds, r.total_idle_seconds>>

ActiveTitled(app_name) ==
    {k \in 1..Len(smoothed_logs) :
        /\ smoothed_logs[k].app_name = app_name
        /\ ~smoothed_logs[k].is_idle
        /\ smoothed_logs[k].window_title # <<>>}

\* the sum of the durations of the first n sub-activities of an entry
RECURSIVE SubActivitySeconds(_, _)
SubActivitySeconds(entry, n) ==
    IF n = 0
    THEN 0
    ELSE SubActivitySeconds(entry, n - 1) + entry.sub_activities[n].duration_seconds

SubActivitiesSumWithinActive(entry) ==
    SubActivitySeconds(entry, Len(entry.sub_activities)) <= entry.active_seconds

SubActivitiesDescending(entry) ==
    \A p, q \in 1..Len(entry.sub_activities) :
        p < q => entry.sub_activities[p].duration_seconds
                    >= entry.sub_activities[q].duration_seconds

\* for a non-browser application the key is the title cut to 60 characters
NonBrowserKeys(entry) ==
    ~entry.is_browser =>
        \A s \in 1..Len(entry.sub_activities) :
            entry.sub_activities[s].duration_seconds
                = interval * Cardinality({k \in ActiveTitled(entry.name) :
                      /\ Len(entry.sub_activities[s].name) <= 60
                      /\ Len(entry.sub_activities[s].name) <= Len(smoothed_logs[k].window_title)
                      /\ Len(entry.sub_activities[s].name) = 60
                            \/ entry.sub_activities[s].name = smoothed_logs[k].window_title
                      /\ entry.sub_activities[s].name
                            = SubSeq(smoothed_logs[k].window_title, 1,
                                     Len(entry.sub_activities[s].name))})

\* C24: a snapshot adds one interval to a sub-activity of its application if
\* and only if it is active after smoothing and has a non-empty window title,
\* so the sub-activities of an application add up to one interval for each
\* such snapshot; for a non-browser application the key is the title cut to
\* 60 characters; the sub-activities never add up to more than active_seconds
\* and are listed by descending count.
C24_SubActivityPerActiveTitledSnapshot ==
    responded =>
        \A a \in 1..Len(report.apps) :
            LET entry == report.apps[a] IN
            /\ SubActivitySeconds(entry, Len(entry.sub_activities))
                  = interval * Cardinality(ActiveTitled(entry.name))
            /\ NonBrowserKeys(entry)
            /\ SubActivitiesSumWithinActive(entry)
            /\ SubActivitiesDescending(entry)

\* What holds: the bounds, the order and the keys, and one interval for each
\* active titled snapshot of a non-browser application; for a browser, at
\* most one interval for each.
C24_SubActivitiesWithinActiveTitled ==
    responded =>
        \A a \in 1..Len(report.apps) :
            LET entry == report.apps[a] IN
            /\ SubActivitySeconds(entry, Len(entry.sub_activities))
                  <= interval * Cardinality(ActiveTitled(entry.name))
            /\ ~entry.is_browser =>
                  SubActivitySeconds(entry, Len(entry.sub_activities))
                      = interval * Cardinality(ActiveTitled(entry.name))
            /\ NonBrowserKeys(entry)
            /\ SubActivitiesSumWithinActive(entry)
            /\ SubActivitiesDescending(entry)

SubDocsGoogle ==
    <<"s","u","b",".","d","o","c","s",".","g","o","o","g","l","e",".","c","o","m">>

NotDocsGoogle ==
    <<"n","o","t","d","o","c","s",".","g","o","o","g","l","e",".","c","o","m">>

ExampleCom == <<"e","x","a","m","p","l","e",".","c","o","m">>

SubExampleCom == <<"s","u","b",".","e","x","a","m","p","l","e",".","c","o","m">>

\* C25: the default lists match a domain, whatever its case, when its
\* lowercased form is a listed domain or ends with "." and a listed domain:
\* sub.docs.google.com is productive and notdocs.google.com is matched by
\* nothing.  A custom rule decides only for the domain whose lowercased form
\* is the key it is stored under: with a rule for example.com and none for
\* sub.example.com, sub.example.com keeps its default categorization.
C25_DefaultBySubdomainCustomByExactKey ==
    rule_response.op = "categorize" =>
        LET result == rule_response.result
            key == lower(result.domain)
            listed == key \notin DOMAIN custom_rules
        IN  /\ result.source = "custom" <=> key \in DOMAIN custom_rules
            /\ result.source = "custom" => result.category = custom_rules[key]
            /\ listed =>
                   /\ result.category = "productive"
                          <=> Covering(key, PRODUCTIVE_DOMAINS) # {}
                   /\ result.category # "neutral"
                          <=> Covering(key, PRODUCTIVE_DOMAINS \cup DISTRACTION_DOMAINS) # {}
            /\ (listed /\ key = SubDocsGoogle) => result.category = "productive"
            /\ (listed /\ key = NotDocsGoogle) => result.category = "neutral"
            /\ (listed /\ key = SubExampleCom) =>
                   result.category = "neutral" /\ result.source = "default"

\* sub.example.com was categorized while a rule made example.com a
\* distraction, and came out neutral by default
C25_Witness ==
    /\ rule_response.op = "categorize"
    /\ rule_response.result.domain = SubExampleCom
    /\ ExampleCom \in DOMAIN custom_rules
    /\ custom_rules[ExampleCom] = "distraction"
    /\ SubExampleCom \notin DOMAIN custom_rules
    /\ rule_response.result.category = "neutral"
    /\ rule_response.result.source = "default"

\* the snapshots of the members that the endpoint counts: of the last seven
\* days, not idle, with an application name
CountedSnapshots ==
    UNION {{<<user_id, k>> : k \in {j \in 1..Len(team_logs[user_id]) :
                                       /\ team_logs[user_id][j].age_days <= 7
                                       /\ ~team_logs[user_id][j].is_idle
                                       /\ team_logs[user_id][j].app_name # <<>>}} :
           user_id \in {team_members[m] : m \in 1..Len(team_members)}}

UsedApps == {team_logs[at[1]][at[2]].app_name : at \in CountedSnapshots}

UsageOf(app) ==
    5 * Cardinality({at \in CountedSnapshots : team_logs[at[1]][at[2]].app_name = app})

\* no rule pattern of the team, lowercased, occurs in the lowercased name
Uncovered(app) ==
    \A r \in 1..Len(team_rules) :
        ~Contains(lower(team_rules[r].app_pattern), lower(app))

HasProductiveHint(app) ==
    \E h \in 1..Len(PRODUCTIVE_HINTS) : Contains(PRODUCTIVE_HINTS[h], lower(app))

HasNonProductiveHint(app) ==
    \E h \in 1..Len(NON_PRODUCTIVE_HINTS) : Contains(NON_PRODUCTIVE_HINTS[h], lower(app))

\* C26: suggest_rules proposes the used applications that no rule pattern
\* of the team covers (lowercased pattern a substring of the lowercased
\* name), each once and at most 20 of them: all of them when there are at
\* most 20, else 20 of the most used.  A proposal is productive when a
\* productive hint occurs in the name, else non_productive when a
\* non-productive hint occurs, else neutral; its confidence is high exactly
\* when it is not neutral; the proposals descend by usage.
C26_SuggestionsForUncoveredApps ==
    (team_response.returned /\ team_members # <<>>) =>
        LET suggestions == team_response.value.suggestions
            proposed == {suggestions[k].app_pattern : k \in 1..Len(suggestions)}
            uncovered == {app \in UsedApps : Uncovered(app)}
        IN  /\ proposed \subseteq uncovered
            /\ Cardinality(proposed) = Len(suggestions)
            /\ Len(suggestions) <= 20
            /\ Cardinality(uncovered) <= 20 => proposed = uncovered
            /\ Cardinality(uncovered) > 20 => Len(suggestions) = 20
            /\ \A app \in uncovered \ proposed : \A other \in proposed :
                   UsageOf(app) <= UsageOf(other)
            /\ \A k \in 1..Len(suggestions) :
                   LET s == suggestions[k] IN
                   /\ s.total_seconds = UsageOf(s.app_pattern)
                   /\ s.suggested_category =
                          IF HasProductiveHint(s.app_pattern) THEN "productive"
                          ELSE IF HasNonProductiveHint(s.app_pattern) THEN "non_productive"
                          ELSE "neutral"
                   /\ s.confidence = "high" <=> s.suggested_category # "neutral"
                   /\ s.confidence \in {"high", "low"}
                   /\ k < Len(suggestions) =>
                          s.total_seconds >= suggestions[k + 1].total_seconds

\* more than 20 uncovered applications were in use and one more was covered
\* by a rule stored with capitals; 20 were proposed, first the most used,
\* "Word Game", which has hints of both lists and is proposed as productive
C26_Witness ==
    /\ team_response.returned
    /\ team_members # <<>>
    /\ Cardinality({app \in UsedApps : Uncovered(app)}) > 20
    /\ \E app \in UsedApps : ~Uncovered(app)
    /\ Len(team_response.value.suggestions) = 20
    /\ team_response.value.suggestions[1].app_pattern = WordGameApp
    /\ HasProductiveHint(WordGameApp) /\ HasNonProductiveHint(WordGameApp)
    /\ team_response.value.suggestions[1].suggested_category = "productive"
    /\ team_response.value.suggestions[1].confidence = "high"
    /\ team_response.value.suggestions[2].confidence = "low"

\* C26 as stated: every used application that no rule pattern covers is
\* proposed, and no other
C26_ProposedIffUncovered ==
    (team_response.returned /\ team_members # <<>>) =>
        \A app \in UsedApps :
            (\E k \in 1..Len(team_response.value.suggestions) :
                 team_response.value.suggestions[k].app_pattern = app)
                <=> Uncovered(app)

(***************************************************************************)
(* Properties of the counters of the team scoring passes                   *)
(***************************************************************************)
\* the number of stored snapshots of a user that are not idle
ActiveSnapshots(user_id) ==
    Cardinality({k \in 1..Len(team_logs[user_id]) : ~team_logs[user_id][k].is_idle})

ActiveSnapshotsOfTeam ==
    LET upto[n \in 0..Len(team_members)] ==
            IF n = 0 THEN 0 ELSE upto[n - 1] + ActiveSnapshots(team_members[n])
    IN  upto[Len(team_members)]

\* the three counters of the comparison add up to one interval per active
\* snapshot of the team
ComparisonCountsEveryActiveSnapshot ==
    compare_response.returned =>
        LET entry == compare_response.value.teams[1] IN
        entry.productive_seconds + entry.neutral_seconds + entry.non_productive_seconds
            = 5 * ActiveSnapshotsOfTeam

\* the three counters of every member of a report add up to one interval
\* per active snapshot of the member
ReportCountsEveryActiveSnapshot ==
    \A m \in 1..Len(team_response.value.members) :
        LET member == team_response.value.members[m] IN
        member.productive_seconds + member.neutral_seconds
                + member.non_productive_seconds
            = 5 * ActiveSnapshots(member.user_id)

\* C27: a team scoring pass adds one interval per active snapshot to exactly
\* one of its three counters, a snapshot whose rule category is neither
\* productive nor non_productive to the neutral one: the member report and
\* the comparison return counters that add up to the active snapshots times
\* the interval, whatever the categories of the rules.
C27_EveryActiveSnapshotCounted ==
    /\ ComparisonCountsEveryActiveSnapshot
    /\ team_response.returned =>
           /\ team_response.value.status = 200
           /\ ReportCountsEveryActiveSnapshot

\* What holds: the comparison always counts so, and the member report does
\* whenever it is returned.
C27_CountedWhereReported ==
    /\ ComparisonCountsEveryActiveSnapshot
    /\ (team_response.returned /\ team_response.value.status = 200) =>
           ReportCountsEveryActiveSnapshot

(***************************************************************************)
(* Properties of the recovered time of a report                            *)
(***************************************************************************)
\* the snapshots that smoothing marked
SmoothedSnapshots ==
    {k \in 1..Len(smoothed_logs) : Get(smoothed_logs[k], "smoothed", FALSE)}

\* C28: in every report smoothed_recovered_seconds is the interval times the
\* number of snapshots marked smoothed, and it is both total_active_seconds
\* minus raw_active_seconds and raw_idle_seconds minus total_idle_seconds;
\* so the active total is at least the raw one and the idle total at most
\* the raw one.
C28_RecoveredIsSmoothedTime ==
    responded =>
        /\ report.smoothed_recovered_seconds = interval * Cardinality(SmoothedSnapshots)
        /\ report.smoothed_recovered_seconds
              = report.total_active_seconds - report.raw_active_seconds
        /\ report.smoothed_recovered_seconds
              = report.raw_idle_seconds - report.total_idle_seconds
        /\ report.total_active_seconds >= report.raw_active_seconds
        /\ report.total_idle_seconds <= report.raw_idle_seconds

\* a report at 10 seconds per snapshot in which smoothing recovered the
\* three idle snapshots between active ones
C28_Witness ==
    /\ responded
    /\ interval = 10
    /\ Cardinality(SmoothedSnapshots) = 3
    /\ report.smoothed_recovered_seconds = 30
    /\ report.raw_idle_seconds = 30
    /\ report.raw_active_seconds > 0
    /\ report.total_active_seconds = report.raw_active_seconds + 30

(***************************************************************************)
(* Properties of the seconds of an application entry                       *)
(***************************************************************************)
\* C29: in every application entry of a report, at every interval_seconds,
\* the longest focus streak is at most the active seconds, which are at
\* most the duration; and the streak is at least one interval when the
\* application has an active snapshot.
C29_StreakWithinActiveWithinDuration ==
    responded =>
        \A k \in 1..Len(report.apps) :
            LET app == report.apps[k] IN
            /\ app.longest_focus_streak_seconds <= app.active_seconds
            /\ app.active_seconds <= app.duration_seconds
            /\ app.active_seconds > 0 => app.longest_focus_streak_seconds >= interval

\* What holds: the active seconds never exceed the duration; the streak is
\* counted at SNAPSHOT_INTERVAL per snapshot, so for an application with a
\* name it lies between one snapshot's 5 seconds and the active seconds
\* rescaled to 5 seconds per snapshot.
C29_StreakAtSnapshotInterval ==
    responded =>
        \A k \in 1..Len(report.apps) :
            LET app == report.apps[k] IN
            /\ app.active_seconds <= app.duration_seconds
            /\ app.longest_focus_streak_seconds * interval
                  <= app.active_seconds * SNAPSHOT_INTERVAL
            /\ (app.active_seconds > 0 /\ app.name # <<>>) =>
                  app.longest_focus_streak_seconds >= SNAPSHOT_INTERVAL
            /\ app.name = <<>> => app.longest_focus_streak_seconds = 0

(***************************************************************************)
(* Properties of smoothing and focus streaks across gaps                   *)
(***************************************************************************)
\* the stored snapshots one interval apart, after smoothing
SmoothedWithoutGaps == smooth_idle_status(detect_gaps(WithoutGaps))

\* an application entry reports the streak that streaks holds for its name
StreakIs(streaks, app) ==
    app.longest_focus_streak_seconds =
        IF app.name \in DOMAIN streaks THEN streaks[app.name] ELSE 0

\* C30: smoothing and focus streaks go by the order of the snapshots and not
\* by the time between them: the stored snapshots and the same snapshots one
\* interval apart get the same is_idle and smoothed flags, place by place,
\* and the same focus streak for every application, whatever gaps the day
\* has; a snapshot after a gap neither splits an idle streak nor ends a
\* focus streak.
C30_GapsLeaveFlagsAndStreaks ==
    responded =>
        \A regular \in {SmoothedWithoutGaps} :
            /\ Flags(smoothed_logs) = Flags(regular)
            /\ \A k \in 1..Len(smoothed_logs) :
                  smoothed_logs[k]["app_name"] = regular[k]["app_name"]
            /\ \A streaks \in {compute_focus_streaks(regular)} :
                  \A k \in 1..Len(report.apps) : StreakIs(streaks, report.apps[k])

\* an idle streak of six snapshots with a gap in its middle stayed idle as a
\* whole: each half alone is short enough to be reclassified
C30_Witness ==
    /\ responded
    /\ Len(smoothed_logs) >= 6
    /\ \A k \in 1..6 : is_idle_of(smoothed_logs[k])
    /\ Get(smoothed_logs[4], "after_gap", FALSE)
    /\ \A k \in {1, 2, 3, 5, 6} : ~Get(smoothed_logs[k], "after_gap", FALSE)
    /\ 3 * SNAPSHOT_INTERVAL <= SHORT_STREAK_SECONDS
    /\ report.smoothed_recovered_seconds = 0

\* a focus streak of two snapshots with a gap between them
C30_WitnessFocusStreak ==
    /\ responded
    /\ Len(smoothed_logs) = 2
    /\ Get(smoothed_logs[2], "after_gap", FALSE)
    /\ Len(report.apps) = 1
    /\ report.apps[1].longest_focus_streak_seconds = 2 * SNAPSHOT_INTERVAL

=============================================================================
